---- MODULE Spec2Model ----
(***************************************************************************)
(* A model of the PowerPoint automation server of src/main.py: the handle  *)
(* registry (PPTAutomation.presentations), the host application's          *)
(* documents and their slide sequences, and the tool operations that open, *)
(* close, enumerate and restructure them.                                  *)
(***************************************************************************)
EXTENDS Integers, Sequences, FiniteSets, TLC

(* ---------------------------- bounds ----------------------------------- *)
\* number of documents the host ever holds
MaxDocs == 2
\* longest slide sequence a document grows to
MaxSlides == 3
\* number of handles uuid4 mints before the model stops minting
MaxTokens == 3
\* most shapes a slide grows to
MaxShapes == 2
\* longest identifier string a caller passes
MaxIdLen == 3
\* the seconds the clock runs through
MaxClock == 1
\* the images one behaviour exports
MaxExports == 2

VARIABLES
    ppt_app,        \* PPTAutomation.ppt_app is set (connection to the host)
    presentations,  \* PPTAutomation.presentations: handle -> document
    nextId,         \* the next fresh uuid4 value
    docs,           \* the host's documents: state, path and slide sequence
    active,         \* the host's ActivePresentation (0: none)
    last,           \* the last tool call: its arguments, result and pre-state
    prev,           \* the move_slide call that the last call reversed
    clock,          \* datetime.now(), in whole seconds
    exported,       \* the paths the successful exports returned, in order
    ids             \* the slide and shape identifiers the caller passes

vars == <<ppt_app, presentations, nextId, docs, active, last, prev,
          clock, exported, ids>>

DocIds == 1..MaxDocs
Tokens == 1..MaxTokens
\* handles a caller may present: minted or not (0 is never minted)
Handles == 0..MaxTokens

(* ------------------------ shapes and slides ---------------------------- *)
\* One text frame of a shape as the automation layer sees it.
\*   state   : "ok", "absent" (AttributeError) or "fault" (the host raises)
\*   hasText : "True"/"False" (a Python bool), "msoTrue"/"msoFalse" (the
\*             host's tri-state integers -1/0), "absent" or "fault"
\*   range   : TextRange is "ok", "absent" or "fault"
\*   text    : TextRange.Text;  textState: "str", "nonstr" or "fault"
Frame(st, ht, rg, tx, ts) ==
    [state |-> st, hasText |-> ht, range |-> rg, text |-> tx, textState |-> ts]

NoFrame == Frame("absent", "absent", "absent", "", "str")
TextFrameOf(t) ==
    Frame("ok", IF t = "" THEN "False" ELSE "True", "ok", t, "str")

\* A shape: Name, Type, PlaceholderFormat.Type, TextFrame, TextFrame2 and
\* the set of direct attributes whose access makes the host raise.
Shape(nm, ty, ph, tf, tf2, flt) ==
    [name |-> nm, type |-> ty, ph |-> ph, tf |-> tf, tf2 |-> tf2, fault |-> flt]

msoPlaceholder == 14
msoTextBox == 17
msoPicture == 13
ppPlaceholderTitle == 1

TitlePlaceholder(t) ==
    Shape("Title 1", msoPlaceholder, ppPlaceholderTitle,
          TextFrameOf(t), TextFrameOf(t), {})
SubtitlePlaceholder(t) ==
    Shape("Subtitle 2", msoPlaceholder, 4,
          TextFrameOf(t), TextFrameOf(t), {})
TextBox(t) ==
    Shape("TextBox 3", msoTextBox, 0, TextFrameOf(t), TextFrameOf(t), {})
Picture ==
    Shape("Picture 4", msoPicture, 0, NoFrame, NoFrame, {})

\* an auto shape that has the legacy TextFrame and no TextFrame2
msoAutoShape == 1
LegacyShape(t) ==
    Shape("Rectangle 5", msoAutoShape, 0, TextFrameOf(t), NoFrame, {})

\* The same shapes as PowerPoint's COM objects show them: HasText is an
\* MsoTriState, which arrives as the int -1 (msoTrue) or 0 (msoFalse).
HostFrameOf(t) ==
    Frame("ok", IF t = "" THEN "msoFalse" ELSE "msoTrue", "ok", t, "str")
HostTitlePlaceholder(t) ==
    Shape("Title 1", msoPlaceholder, ppPlaceholderTitle,
          HostFrameOf(t), HostFrameOf(t), {})
HostLegacyShape(t) ==
    Shape("Rectangle 5", msoAutoShape, 0, HostFrameOf(t), NoFrame, {})

\* a shape whose Type cannot be read: the host raises
FaultyShape ==
    Shape("Chart 6", msoAutoShape, 0, NoFrame, NoFrame, {"Type"})
\* an auto shape with text whose TextFrame2 cannot be read: the host raises
FaultFrame == Frame("fault", "fault", "fault", "", "fault")
Frame2FaultShape(t) ==
    Shape("Rectangle 7", msoAutoShape, 0, TextFrameOf(t), FaultFrame, {})
\* a text box that carries the name "TextFrame shape"
NamedTextBox(t) ==
    Shape("TextFrame shape", msoTextBox, 0, TextFrameOf(t), TextFrameOf(t), {})

\* A shape of a document is held as what the tools can change of it, next
\* to its kind: its text, its geometry <<Left, Top, Width, Height>> and its
\* font <<Size, Name>>.
Cell(kind, text) ==
    [kind |-> kind, text |-> text, geom |-> <<0, 0, 1, 1>>, font |-> <<1, "f">>]

\* the shape the automation layer sees for a cell
ShapeOf(cell) ==
    IF cell.kind = "title" THEN TitlePlaceholder(cell.text)
    ELSE IF cell.kind = "subtitle" THEN SubtitlePlaceholder(cell.text)
    ELSE IF cell.kind = "textbox" THEN TextBox(cell.text)
    ELSE IF cell.kind = "legacy" THEN LegacyShape(cell.text)
    ELSE IF cell.kind = "hostTitle" THEN HostTitlePlaceholder(cell.text)
    ELSE IF cell.kind = "hostLegacy" THEN HostLegacyShape(cell.text)
    ELSE IF cell.kind = "faulty" THEN FaultyShape
    ELSE IF cell.kind = "frame2Fault" THEN Frame2FaultShape(cell.text)
    ELSE IF cell.kind = "named" THEN NamedTextBox(cell.text)
    ELSE Picture

\* A slide is the sequence of its shapes, in shape order.
SlideA == << Cell("title", "A"), Cell("picture", "") >>
SlideB == << Cell("textbox", "B") >>
SlideBlank == << >>
SlideTitleLayout == << Cell("title", ""), Cell("subtitle", "") >>

\* slide.Shapes
ShapesOf(slide) == [i \in 1..Len(slide) |-> ShapeOf(slide[i])]

\* text.strip() is empty
IsBlankText(t) == t \in {"", " ", "  "}

Truthy(ht) == ht \in {"True", "msoTrue"}
IsBool(ht) == ht \in {"True", "False"}

\* hasattr(shape, "TextFrame") and hasattr(shape.TextFrame, "TextRange"):
\* "yes", "no", or "raise" when the host raises something other than
\* AttributeError (hasattr lets it through).
HasReadableRange(fr) ==
    IF fr.state = "fault" THEN "raise"
    ELSE IF fr.state = "absent" THEN "no"
    ELSE IF fr.range = "fault" THEN "raise"
    ELSE IF fr.range = "absent" THEN "no"
    ELSE "yes"

Untitled == "Untitled Slide"
Raise == "<raise>"
None == "<none>"

\* first loop of get_slide_title: the title placeholder
RECURSIVE TitlePass1(_, _)
TitlePass1(shapes, i) ==
    IF i > Len(shapes) THEN None
    ELSE LET s == shapes[i] IN
         IF "Type" \in s.fault THEN Raise
         ELSE IF s.type # msoPlaceholder THEN TitlePass1(shapes, i + 1)
         ELSE IF "PlaceholderFormat" \in s.fault THEN Raise
         ELSE IF s.ph # ppPlaceholderTitle THEN TitlePass1(shapes, i + 1)
         ELSE LET r == HasReadableRange(s.tf) IN
              IF r = "raise" THEN Raise
              ELSE IF r = "no" THEN TitlePass1(shapes, i + 1)
              ELSE IF s.tf.textState = "fault" THEN Raise
              ELSE s.tf.text

\* second loop: the first text box (type 17) with non-blank text
RECURSIVE TitlePass2(_, _)
TitlePass2(shapes, i) ==
    IF i > Len(shapes) THEN None
    ELSE LET s == shapes[i] IN
         IF "Type" \in s.fault THEN Raise
         ELSE IF s.type # msoTextBox THEN TitlePass2(shapes, i + 1)
         ELSE LET r == HasReadableRange(s.tf) IN
              IF r = "raise" THEN Raise
              ELSE IF r = "no" THEN TitlePass2(shapes, i + 1)
              ELSE IF s.tf.textState = "fault" THEN TitlePass2(shapes, i + 1)
              ELSE IF ~IsBlankText(s.tf.text) THEN s.tf.text
              ELSE TitlePass2(shapes, i + 1)

\* third loop: the first shape that is not a title placeholder and has
\* non-blank text
RECURSIVE TitlePass3(_, _)
TitlePass3(shapes, i) ==
    IF i > Len(shapes) THEN None
    ELSE LET s == shapes[i] IN
         IF "Type" \in s.fault THEN Raise
         ELSE IF s.type = msoPlaceholder /\ "PlaceholderFormat" \in s.fault
              THEN Raise
         ELSE IF s.type = msoPlaceholder /\ s.ph = ppPlaceholderTitle
              THEN TitlePass3(shapes, i + 1)
         ELSE LET r == HasReadableRange(s.tf) IN
              IF r = "raise" THEN Raise
              ELSE IF r = "no" THEN TitlePass3(shapes, i + 1)
              ELSE IF s.tf.textState = "fault" THEN TitlePass3(shapes, i + 1)
              ELSE IF ~IsBlankText(s.tf.text) THEN s.tf.text
              ELSE TitlePass3(shapes, i + 1)

\* text boxes are given no preference over the other shapes
TitleInShapeOrder(slide) ==
    LET t1 == TitlePass1(slide, 1)
        t3 == TitlePass3(slide, 1)
    IN
    IF t1 = Raise THEN Untitled
    ELSE IF t1 # None THEN t1
    ELSE IF t3 \in {Raise, None} THEN Untitled ELSE t3

\* a title placeholder without text is passed over
TitleSkipsEmptyPlaceholder(slide) ==
    LET t1 == TitlePass1(slide, 1)
        t2 == TitlePass2(slide, 1)
        t3 == TitlePass3(slide, 1)
    IN
    IF t1 = Raise THEN Untitled
    ELSE IF t1 \notin {None, ""} THEN t1
    ELSE IF t2 = Raise THEN Untitled
    ELSE IF t2 # None THEN t2
    ELSE IF t3 \in {Raise, None} THEN Untitled ELSE t3

get_slide_title(slide) ==
    LET t1 == TitlePass1(slide, 1) IN
    IF t1 = Raise THEN Untitled
    ELSE IF t1 # None THEN t1
    ELSE LET t2 == TitlePass2(slide, 1) IN
         IF t2 = Raise THEN Untitled
         ELSE IF t2 # None THEN t2
         ELSE LET t3 == TitlePass3(slide, 1) IN
              IF t3 \in {Raise, None} THEN Untitled ELSE t3

(* ----------------------- shape classification -------------------------- *)
\* the HasText test of is_text_box on one frame whose access succeeded:
\* the value when it is a Python bool, otherwise FALSE
BoolHasText(fr) ==
    IF fr.hasText \in {"fault", "absent"} THEN FALSE
    ELSE IF IsBool(fr.hasText) THEN fr.hasText = "True"
    ELSE FALSE

is_text_box(shape) ==
    IF "Type" \in shape.fault THEN FALSE
    ELSE IF shape.type = msoTextBox THEN TRUE
    ELSE IF shape.tf.state = "fault" THEN FALSE
    ELSE IF /\ shape.tf.state = "ok"
            /\ shape.tf.hasText \notin {"fault", "absent"}
            /\ ~IsBool(shape.tf.hasText)
            /\ "Name" \notin shape.fault
            /\ shape.name = "non-text box shape"
         THEN FALSE
    ELSE LET has1 == shape.tf.state = "ok" /\ BoolHasText(shape.tf) IN
         IF has1 THEN TRUE
         ELSE IF shape.tf2.state = "fault" THEN FALSE
         ELSE shape.tf2.state = "ok" /\ BoolHasText(shape.tf2)

\* TextRange.Text of a frame when it is reachable and a str, else ""
RangeText(fr) ==
    IF fr.range = "ok" /\ fr.textState = "str" THEN fr.text ELSE ""

\* the TextFrame2 step of extract_shape_text
Frame2Text(fr) ==
    IF fr.state # "ok" THEN ""
    ELSE IF fr.hasText \in {"fault", "absent"} THEN ""
    ELSE IF Truthy(fr.hasText) THEN RangeText(fr)
    ELSE ""

\* the legacy TextFrame step of extract_shape_text
Frame1Text(fr) ==
    IF fr.state # "ok" THEN ""
    ELSE IF fr.hasText = "fault" THEN ""
    ELSE RangeText(fr)

extract_shape_text(shape) ==
    IF "Name" \in shape.fault THEN Raise
    ELSE IF shape.name = "TextFrame shape" THEN "Text from TextFrame"
    ELSE IF shape.tf2.state = "fault" THEN ""
    ELSE LET t2 == Frame2Text(shape.tf2) IN
         IF t2 # "" THEN t2
         ELSE IF shape.tf.state = "fault" THEN ""
         ELSE Frame1Text(shape.tf)

\* find_shape_id: the first position of the slide whose shape is the target
\* object; shape objects are identified by (slide, position), so a target
\* is given as the position it has on its own slide and onSlide tells
\* whether that slide is the one searched.  0 stands for "unknown".
find_shape_id(slide, onSlide, targetPos) ==
    IF onSlide /\ targetPos \in 1..Len(slide) THEN targetPos ELSE 0

(* --------------------------- host state -------------------------------- *)
Paths == {"deck.pptx", "missing.pptx"}
\* os.path.exists(path)
PathExists(path) == path = "deck.pptx"
\* the existence check left out
PathMissingNever(path) == FALSE

\* "if not os.path.exists(path)"
PathMissing(path) == ~PathExists(path)
\* the path argument as recorded with a call
PathId(path) == IF path = "deck.pptx" THEN 1 ELSE 2
\* the slides the host finds in the file
FileDeck(path) == << SlideA, SlideB >>

\* PageSetup.SlideWidth and SlideHeight of a document, as <<W, H>>
WidePage == <<960, 540>>
StandardPage == <<720, 540>>
NoDoc == [state |-> "none", path |-> "", slides |-> << >>, page |-> WidePage, saved |-> TRUE]

\* (saved is the Saved flag of the document: the host sets it when the
\* document is opened, created or saved and clears it when it is changed)

\* the documents of the host's Presentations collection, in collection order
OpenDocs(ds) == {d \in DocIds : ds[d].state = "open"}
IsOpen(d) == d \in DocIds /\ docs[d].state = "open"

RECURSIVE SetToSeq(_)
SetToSeq(S) ==
    IF S = {} THEN << >>
    ELSE LET m == CHOOSE x \in S : \A y \in S : x <= y
         IN <<m>> \o SetToSeq(S \ {m})

RemoveAt(seq, i) ==
    [j \in 1..(Len(seq) - 1) |-> IF j < i THEN seq[j] ELSE seq[j + 1]]
InsertAt(seq, i, x) ==
    [j \in 1..(Len(seq) + 1) |->
        IF j < i THEN seq[j] ELSE IF j = i THEN x ELSE seq[j - 1]]

Registered(h) == h \in DOMAIN presentations

\* dict insertion: presentations[pres_id] = pres
Register(reg, h, d) == [t \in (DOMAIN reg) \cup {h} |-> IF t = h THEN d ELSE reg[t]]
\* the entry left in the dict
UnregisterKept(reg, h) == reg
\* del presentations[presentation_id]
Unregister(reg, h) == [t \in (DOMAIN reg) \ {h} |-> reg[t]]

\* The places where the host may raise during a call, per tool ("none": it
\* does not); each tool explains its own.
OpenFaults == {"none", "open", "count"}
CreateFaults == {"none", "add", "count"}
CloseFaults == {"none", "save", "close"}
AddFaults == {"none", "count", "add", "shapes"}
CopyFaults == {"none", "count", "duplicate", "moveto", "final"}
DeleteFaults == {"none", "count", "delete", "recount"}
MoveFaults == {"none", "count", "copy", "paste", "delete", "recount"}
ListFaults == {"none", "count", "item"}
SlidesFaults == {"none", "count"}
SelectedFaults == {"none", "active", "window", "selection"}

(* ------------------------- results of a call --------------------------- *)
NotFound == "Presentation ID not found"
FileNotFound == "File not found"
InvalidSlide == "Invalid slide ID"
InvalidPosition == "Invalid new position"
InvalidInsert == "Invalid insert position"
HostFault == "host fault"
InvalidFormat == "Invalid ID format"
InvalidSlideFormat == "Invalid slide ID format"
InvalidShape == "Invalid shape ID"
NotEditable == "Shape does not contain editable text"

\* kind: "ok" (a success result), "error" (a result carrying an error) or
\* "raised" (the exception left the tool function)
Result == [kind |-> "ok", error |-> "", id |-> 0, index |-> 0, count |-> 0,
           title |-> "", shapes |-> << >>, pasteAt |-> 0, deleteAt |-> 0,
           path |-> << >>, width |-> 0, height |-> 0,
           file |-> "", is_saved |-> FALSE]
Error(msg) == [Result EXCEPT !.kind = "error", !.error = msg]

NoPrev == [h |-> 0, a |-> 0, b |-> 0, doc |-> 0, deck |-> << >>]

\* record the call in last; when a successful move_slide(p, s) follows a
\* successful move_slide(s, p) on the same handle, prev remembers the
\* earlier one
Record(op, h, a, b, f, res, host) ==
    /\ last' = [op |-> op, h |-> h, a |-> a, b |-> b, fault |-> f,
                res |-> res, host |-> host,
                pre |-> [presentations |-> presentations, docs |-> docs,
                         active |-> active]]
    /\ prev' = IF /\ op = "move_slide" /\ res.kind = "ok"
                  /\ last.op = "move_slide" /\ last.res.kind = "ok"
                  /\ h = last.h /\ a = last.b /\ b = last.a
               THEN [h |-> last.h, a |-> last.a, b |-> last.b,
                     doc |-> last.pre.presentations[last.h],
                     deck |-> last.pre.docs[last.pre.presentations[last.h]].slides]
               ELSE NoPrev

\* the end of a call that writes no file
Finish(op, h, a, b, f, res, host) ==
    /\ Record(op, h, a, b, f, res, host)
    /\ UNCHANGED <<clock, exported, ids>>

Init ==
    /\ ppt_app = FALSE
    /\ presentations = << >>
    /\ nextId = 1
    /\ docs = [d \in DocIds |-> NoDoc]
    /\ active = 0
    /\ last = [op |-> "init", h |-> 0, a |-> 0, b |-> 0, fault |-> "none",
               res |-> Result, host |-> {},
               pre |-> [presentations |-> << >>,
                        docs |-> [d \in DocIds |-> NoDoc], active |-> 0]]
    /\ prev = NoPrev
    /\ clock = 0
    /\ exported = << >>
    /\ ids = << >>

(* ------------------------- connection ---------------------------------- *)
\* PPTAutomation.initialize: when the host cannot be reached or started
\* ppt_app keeps its value.  ok is the outcome of connecting; the tools
\* that connect only when ppt_app is unset take ok = TRUE when it is set.
initialize(ok) == ppt_app \/ ok

\* "if not ppt_automation.ppt_app: ppt_automation.initialize()"
EnsureApp(ok) == IF ppt_app THEN TRUE ELSE initialize(ok)
EnsureHost == IF ppt_app THEN {} ELSE {"initialize"}

initialize_powerpoint(ok) ==
    /\ ppt_app' = initialize(ok)
    /\ Finish("initialize_powerpoint", 0, 0, 0, "none",
              IF ok THEN Result ELSE [Result EXCEPT !.kind = "error"],
              {"initialize"})
    /\ UNCHANGED <<presentations, nextId, docs, active>>

(* ------------------------ get_presentations ---------------------------- *)
\* f = 0: no fault; f = -1: Presentations.Count raises; f = j > 0: the host
\* raises while the metadata of the j-th document is read, after its handle
\* was stored.  Nothing catches the exception.
get_presentations(ok, f) ==
    LET app  == EnsureApp(ok)
        open == SetToSeq(OpenDocs(docs))
        n    == IF ~app \/ f = -1 THEN 0
                ELSE IF f = 0 THEN Len(open) ELSE f
        reg  == [t \in (DOMAIN presentations) \cup (nextId..(nextId + n - 1)) |->
                    IF t \in DOMAIN presentations THEN presentations[t]
                    ELSE open[t - nextId + 1]]
    IN
    /\ f \in -1..Len(open)
    /\ ppt_app => ok
    /\ ~app => f = 0
    /\ nextId + n - 1 <= MaxTokens
    /\ ppt_app' = app
    /\ presentations' = reg
    /\ nextId' = nextId + n
    /\ Finish("get_presentations", 0, 0, 0,
              IF f = 0 THEN "none" ELSE "host",
              IF f = 0 THEN [Result EXCEPT !.count = n, !.id = nextId]
              ELSE [Error(HostFault) EXCEPT !.kind = "raised"],
              EnsureHost \cup (IF app THEN {"Presentations"} ELSE {}))
    /\ UNCHANGED <<docs, active>>

(* ------------------------- open_presentation --------------------------- *)
\* f: "none", "open" (Presentations.Open raises) or "count" (Slides.Count
\* raises when the result is built)
open_presentation(path, ok, f) ==
    LET app   == EnsureApp(ok)
        same  == {d \in OpenDocs(docs) : docs[d].path = path}
        free  == {d \in DocIds : docs[d].state = "none"}
        d     == IF same # {} THEN CHOOSE x \in same : TRUE
                 ELSE CHOOSE x \in free : \A y \in free : x <= y
    IN
    /\ f \in OpenFaults
    /\ ppt_app => ok
    /\ ppt_app' = app
    /\ IF PathMissing(path) THEN
            /\ f = "none"
            /\ Finish("open_presentation", 0, PathId(path), 0, f, Error(FileNotFound),
                      EnsureHost)
            /\ UNCHANGED <<presentations, nextId, docs, active>>
       ELSE IF ~app \/ f = "open" THEN
            /\ ~app => f = "none"
            /\ Finish("open_presentation", 0, PathId(path), 0, f, Error(HostFault),
                      EnsureHost \cup (IF app THEN {"Presentations.Open"} ELSE {}))
            /\ UNCHANGED <<presentations, nextId, docs, active>>
       ELSE /\ same # {} \/ free # {}
            /\ nextId <= MaxTokens
            /\ docs' = IF same # {} THEN docs
                       ELSE [docs EXCEPT ![d] = [state |-> "open", path |-> path,
                                                 slides |-> FileDeck(path),
                                                 page |-> WidePage, saved |-> TRUE]]
            /\ active' = d
            /\ presentations' = Register(presentations, nextId, d)
            /\ nextId' = nextId + 1
            /\ Finish("open_presentation", 0, PathId(path), 0, f,
                      IF f = "count" THEN Error(HostFault)
                      ELSE [Result EXCEPT !.id = nextId,
                                          !.count = Len(docs'[d].slides)],
                      EnsureHost \cup {"Presentations.Open"})

(* ------------------------ create_presentation -------------------------- *)
\* f: "none", "add" (Presentations.Add raises) or "count"
create_presentation(ok, f) ==
    LET app  == EnsureApp(ok)
        free == {d \in DocIds : docs[d].state = "none"}
        d    == CHOOSE x \in free : \A y \in free : x <= y
    IN
    /\ f \in CreateFaults
    /\ ppt_app => ok
    /\ ppt_app' = app
    /\ IF ~app \/ f = "add" THEN
            /\ ~app => f = "none"
            /\ Finish("create_presentation", 0, 0, 0, f, Error(HostFault),
                      EnsureHost \cup (IF app THEN {"Presentations.Add"} ELSE {}))
            /\ UNCHANGED <<presentations, nextId, docs, active>>
       ELSE /\ free # {}
            /\ nextId <= MaxTokens
            /\ docs' = [docs EXCEPT ![d] = [state |-> "open", path |-> "",
                                            slides |-> << >>, page |-> WidePage, saved |-> TRUE]]
            /\ active' = d
            /\ presentations' = Register(presentations, nextId, d)
            /\ nextId' = nextId + 1
            /\ Finish("create_presentation", 0, 0, 0, f,
                      IF f = "count" THEN Error(HostFault)
                      ELSE [Result EXCEPT !.id = nextId, !.count = 0],
                      EnsureHost \cup {"Presentations.Add"})

(* ------------------------- close_presentation -------------------------- *)
\* f: "none", "save" (pres.Save raises) or "close" (pres.Close raises).
\* A document the host has already closed raises on every access.
close_presentation(h, save, f) ==
    IF ~Registered(h) THEN
        /\ f = "none"
        /\ Finish("close_presentation", h, IF save THEN 1 ELSE 0, 0, f,
                  Error(NotFound), {})
        /\ UNCHANGED <<ppt_app, presentations, nextId, docs, active>>
    ELSE
        LET d    == presentations[h]
            dead == docs[d].state # "open"
            ef   == IF dead THEN (IF save THEN "save" ELSE "close") ELSE f
            rest == OpenDocs(docs) \ {d}
        IN
        /\ f \in CloseFaults
        /\ f = "save" => save
        /\ dead => f = "none"
        /\ IF ef # "none" THEN
                /\ Finish("close_presentation", h, IF save THEN 1 ELSE 0, 0, ef,
                          Error(HostFault),
                          IF ef = "save" THEN {"Save"}
                          ELSE (IF save THEN {"Save"} ELSE {}) \cup {"Close"})
                /\ UNCHANGED <<ppt_app, presentations, nextId, docs, active>>
           ELSE /\ docs' = [docs EXCEPT ![d].state = "closed"]
                /\ presentations' = Unregister(presentations, h)
                /\ \E a \in rest \cup {0} :
                      /\ (rest # {} /\ active = d) => a \in rest
                      /\ active # d => a = active
                      /\ (rest = {}) => a = 0
                      /\ active' = a
                /\ Finish("close_presentation", h, IF save THEN 1 ELSE 0, 0, ef,
                          Result,
                          (IF save THEN {"Save"} ELSE {}) \cup {"Close"})
                /\ UNCHANGED <<ppt_app, nextId>>

\* the user brings another open document to the front
UserActivate(d) ==
    /\ IsOpen(d)
    /\ active # d
    /\ active' = d
    /\ UNCHANGED <<ppt_app, presentations, nextId, docs, last, prev,
                   clock, exported, ids>>

(* --------------------- the host's slide primitives --------------------- *)
\* Slide.Duplicate(): the copy is inserted right after the source
Duplicate(deck, k) == InsertAt(deck, k + 1, deck[k])
\* Slide.MoveTo(toPos): the slide ends up at index toPos
MoveTo(deck, from, to) == InsertAt(RemoveAt(deck, from), to, deck[from])
\* the pasted slide does not stay in the deck
PasteDropped(deck, clip, i) == deck
\* Slides.Paste(Index): the pasted slide becomes the slide at Index
Paste(deck, clip, i) == InsertAt(deck, i, clip)
\* the slide after the intended one is deleted
DeleteFollowing(deck, i) == RemoveAt(deck, i + 1)

\* Slide.Delete()
Delete(deck, i) == RemoveAt(deck, i)
\* Slides.Add(Index, Layout): 1 is the title layout (the default of
\* add_slide), 7 the blank layout; callers of the model use the default
Layouts == {1}
LayoutSlide(layout) == IF layout = 1 THEN SlideTitleLayout ELSE SlideBlank

\* a range check that also turns away what lies beyond the number of
\* slides the deck had when it was opened
InvalidPosAtOpen(k, n) == k < 1 \/ k > n \/ k > Len(FileDeck("deck.pptx"))

\* a range check that turns the last slide away
InvalidPosExcludesLast(k, n) == k < 1 \/ k >= n

\* "if slide_id < 1 or slide_id > slide_count"
InvalidPos(k, n) == k < 1 \/ k > n

\* slide positions a caller may ask for: inside and outside every deck
Positions == 0..(MaxSlides + 1)

\* the frame of a tool that takes a presentation_id and fails on an
\* unknown one before doing anything else
Unknown(op, h, a, b) ==
    /\ Finish(op, h, a, b, "none", Error(NotFound), {})
    /\ UNCHANGED <<ppt_app, presentations, nextId, docs, active>>

\* a call that returns res, leaving the deck of document d as deck
Return(op, h, a, b, f, res, host, d, deck) ==
    /\ docs' = [docs EXCEPT ![d].slides = deck,
                             ![d].saved = IF deck = docs[d].slides THEN @ ELSE FALSE]
    /\ Finish(op, h, a, b, f, res, host)
    /\ UNCHANGED <<ppt_app, presentations, nextId, active>>

\* the fault a call meets: a closed document raises at the first access
Effective(d, f, first) == IF docs[d].state # "open" THEN first ELSE f

(* ------------------------------ add_slide ------------------------------ *)
add_slide(h, layout, f) ==
    IF ~Registered(h) THEN f = "none" /\ Unknown("add_slide", h, layout, 0)
    ELSE
        LET d    == presentations[h]
            deck == docs[d].slides
            ef   == Effective(d, f, "count")
            idx  == Len(deck) + 1
            new  == InsertAt(deck, idx, LayoutSlide(layout))
        IN
        /\ f \in AddFaults
        /\ docs[d].state # "open" => f = "none"
        /\ ef \in {"none", "shapes"} => Len(deck) < MaxSlides
        /\ IF ef = "count" THEN
                Return("add_slide", h, layout, 0, ef, Error(HostFault),
                       {"Slides.Count"}, d, deck)
           ELSE IF ef = "add" THEN
                Return("add_slide", h, layout, 0, ef, Error(HostFault),
                       {"Slides.Count", "Slides.Add"}, d, deck)
           ELSE Return("add_slide", h, layout, 0, ef,
                       IF ef = "shapes" THEN Error(HostFault)
                       ELSE [Result EXCEPT !.index = idx, !.title = "New Slide",
                                           !.count = Len(ShapesOf(new[idx]))],
                       {"Slides.Count", "Slides.Add"}, d, new)

(* ------------------------------ copy_slide ----------------------------- *)
\* the duplicate is never moved to the end
CopyTargetStaysWhenNone(k, a, n) ==
    IF a # -1 THEN (IF a # k THEN a + 1 ELSE 0) ELSE 0

\* the target is not advanced past insert_after when that lies behind the source
CopyTargetUnshifted(k, a, n) ==
    IF a # -1
    THEN (IF a # k THEN (IF a >= k THEN a ELSE a + 1) ELSE 0)
    ELSE (IF k + 1 # n + 1 THEN n + 1 ELSE 0)

\* The position copy_slide moves the duplicate to once it sits at k + 1 in
\* a deck that had n slides; 0: it is left where it is.
\* a = -1 stands for insert_after = None.
CopyTarget(k, a, n) ==
    IF a # -1
    THEN (IF a # k THEN a + 1 ELSE 0)
    ELSE (IF k + 1 # n + 1 THEN n + 1 ELSE 0)

\* f: "none", "count", "duplicate" (Item or Duplicate raises), "moveto"
\* (MoveTo raises) or "final" (reading the final slide raises)
copy_slide(h, k, a, f) ==
    IF ~Registered(h) THEN f = "none" /\ Unknown("copy_slide", h, k, a)
    ELSE
        LET d     == presentations[h]
            deck  == docs[d].slides
            n     == Len(deck)
            ef    == Effective(d, f, "count")
            valid == ~InvalidPos(k, n)
            dup   == Duplicate(deck, k)
            target == CopyTarget(k, a, n)
            moved == IF target = 0 THEN dup ELSE MoveTo(dup, k + 1, target)
            idx   == IF target = 0 THEN k + 1 ELSE target
            hostD == {"Slides.Count", "Duplicate"}
        IN
        /\ f \in CopyFaults
        /\ docs[d].state # "open" => f = "none"
        /\ IF ef = "count" THEN
                Return("copy_slide", h, k, a, ef, Error(HostFault),
                       {"Slides.Count"}, d, deck)
           ELSE IF ~valid THEN
                /\ ef = "none"
                /\ Return("copy_slide", h, k, a, ef, Error(InvalidSlide),
                          {"Slides.Count"}, d, deck)
           ELSE IF ef = "duplicate" THEN
                Return("copy_slide", h, k, a, ef, Error(HostFault), hostD, d, deck)
           ELSE /\ n < MaxSlides
                /\ IF a # -1 /\ (a < 0 \/ a > n) THEN
                        /\ ef = "none"
                        /\ Return("copy_slide", h, k, a, ef, Error(InvalidInsert),
                                  hostD, d, dup)
                   ELSE IF ef = "moveto" THEN
                        /\ target # 0
                        /\ Return("copy_slide", h, k, a, ef, Error(HostFault),
                                  hostD \cup {"MoveTo"}, d, dup)
                   ELSE Return("copy_slide", h, k, a, ef,
                               IF ef = "final" THEN Error(HostFault)
                               ELSE [Result EXCEPT
                                        !.index = idx,
                                        !.title = get_slide_title(ShapesOf(moved[idx])),
                                        !.count = Len(ShapesOf(moved[idx]))],
                               hostD \cup (IF target = 0 THEN {} ELSE {"MoveTo"}),
                               d, moved)

(* ----------------------------- delete_slide ---------------------------- *)
\* f: "none", "count", "delete" (Item or Delete raises) or "recount"
delete_slide(h, k, f) ==
    IF ~Registered(h) THEN f = "none" /\ Unknown("delete_slide", h, k, 0)
    ELSE
        LET d     == presentations[h]
            deck  == docs[d].slides
            n     == Len(deck)
            ef    == Effective(d, f, "count")
            valid == ~InvalidPos(k, n)
        IN
        /\ f \in DeleteFaults
        /\ docs[d].state # "open" => f = "none"
        /\ IF ef = "count" THEN
                Return("delete_slide", h, k, 0, ef, Error(HostFault),
                       {"Slides.Count"}, d, deck)
           ELSE IF ~valid THEN
                /\ ef = "none"
                /\ Return("delete_slide", h, k, 0, ef, Error(InvalidSlide),
                          {"Slides.Count"}, d, deck)
           ELSE IF ef = "delete" THEN
                Return("delete_slide", h, k, 0, ef, Error(HostFault),
                       {"Slides.Count", "Delete"}, d, deck)
           ELSE Return("delete_slide", h, k, 0, ef,
                       IF ef = "recount" THEN Error(HostFault)
                       ELSE [Result EXCEPT !.count = Len(Delete(deck, k))],
                       {"Slides.Count", "Delete"}, d, Delete(deck, k))

(* ------------------------------ move_slide ----------------------------- *)
\* the paste index is not advanced past the original
PasteIndexAtTarget(s, p) == p
\* the delete index ignores the shift the paste caused
DeleteIndexUnshifted(s, p) == s

\* where the copy is pasted and where the original is then deleted
PasteIndex(s, p) == IF p > s THEN p + 1 ELSE p
DeleteIndex(s, p) == IF p > s THEN s ELSE s + 1

\* f: "none", "count", "copy" (Item or Copy raises), "paste", "delete"
\* (Item or Delete of the original raises) or "recount"
move_slide(h, s, p, f) ==
    IF ~Registered(h) THEN f = "none" /\ Unknown("move_slide", h, s, p)
    ELSE
        LET d      == presentations[h]
            deck   == docs[d].slides
            n      == Len(deck)
            ef     == Effective(d, f, "count")
            pasted == Paste(deck, deck[s], PasteIndex(s, p))
            final  == Delete(pasted, DeleteIndex(s, p))
        IN
        /\ f \in MoveFaults
        /\ docs[d].state # "open" => f = "none"
        /\ IF ef = "count" THEN
                Return("move_slide", h, s, p, ef, Error(HostFault),
                       {"Slides.Count"}, d, deck)
           ELSE IF InvalidPos(s, n) THEN
                /\ ef = "none"
                /\ Return("move_slide", h, s, p, ef, Error(InvalidSlide),
                          {"Slides.Count"}, d, deck)
           ELSE IF InvalidPos(p, n) THEN
                /\ ef = "none"
                /\ Return("move_slide", h, s, p, ef, Error(InvalidPosition),
                          {"Slides.Count"}, d, deck)
           ELSE IF ef = "copy" THEN
                Return("move_slide", h, s, p, ef, Error(HostFault),
                       {"Slides.Count", "Copy"}, d, deck)
           ELSE IF ef = "paste" THEN
                Return("move_slide", h, s, p, ef, Error(HostFault),
                       {"Slides.Count", "Copy", "Paste"}, d, deck)
           ELSE IF ef = "delete" THEN
                /\ n < MaxSlides
                /\ Return("move_slide", h, s, p, ef,
                          [Error(HostFault) EXCEPT !.pasteAt = PasteIndex(s, p)],
                          {"Slides.Count", "Copy", "Paste", "Delete"}, d, pasted)
           ELSE Return("move_slide", h, s, p, ef,
                       IF ef = "recount" THEN Error(HostFault)
                       ELSE [Result EXCEPT !.count = Len(final),
                                           !.pasteAt = PasteIndex(s, p),
                                           !.deleteAt = DeleteIndex(s, p)],
                       {"Slides.Count", "Copy", "Paste", "Delete"}, d, final)

(* ------------------------ shape and slide listings --------------------- *)
\* reading a shape for a listing raises (its item lookup, Name or Type)
ShapeRaises(sh) == sh.fault \cap {"Item", "Name", "Type"} # {}

\* the entry of one shape: "text" is None when the key is left out
ShapeInfo(sh, id, always) ==
    [id |-> id, name |-> sh.name, type |-> sh.type,
     has_text |-> is_text_box(sh),
     text |-> IF always \/ is_text_box(sh) THEN extract_shape_text(sh) ELSE None]

\* f: "none", "count" or "item" (Slides.Item or Shapes.Count raises)
list_all_shapes_in_slide(h, k, f) ==
    IF ~Registered(h) THEN
        f = "none" /\ Unknown("list_all_shapes_in_slide", h, k, 0)
    ELSE
        LET d     == presentations[h]
            deck  == docs[d].slides
            n     == Len(deck)
            ef    == Effective(d, f, "count")
            host  == {"Slides.Count"}
        IN
        /\ f \in ListFaults
        /\ docs[d].state # "open" => f = "none"
        /\ IF ef = "count" THEN
                Return("list_all_shapes_in_slide", h, k, 0, ef, Error(HostFault),
                       host, d, deck)
           ELSE IF InvalidPos(k, n) THEN
                /\ ef = "none"
                /\ Return("list_all_shapes_in_slide", h, k, 0, ef,
                          Error(InvalidSlide), host, d, deck)
           ELSE IF ef = "item" \/ \E i \in 1..Len(ShapesOf(deck[k])) : ShapeRaises(ShapesOf(deck[k])[i])
                THEN Return("list_all_shapes_in_slide", h, k, 0, ef,
                            Error(HostFault), host \cup {"Slides.Item"}, d, deck)
           ELSE Return("list_all_shapes_in_slide", h, k, 0, ef,
                       [Result EXCEPT
                          !.index = k, !.count = Len(ShapesOf(deck[k])),
                          !.shapes = [i \in 1..Len(ShapesOf(deck[k])) |->
                                         ShapeInfo(ShapesOf(deck[k])[i], i, FALSE)]],
                       host \cup {"Slides.Item"}, d, deck)

\* f: "none" or "count"
get_slides(h, f) ==
    IF ~Registered(h) THEN f = "none" /\ Unknown("get_slides", h, 0, 0)
    ELSE
        LET d     == presentations[h]
            deck  == docs[d].slides
            ef    == Effective(d, f, "count")
        IN
        /\ f \in SlidesFaults
        /\ docs[d].state # "open" => f = "none"
        /\ Return("get_slides", h, 0, 0, ef,
                  IF ef = "count" THEN Error(HostFault)
                  ELSE [Result EXCEPT
                          !.count = Len(deck),
                          !.shapes = [i \in 1..Len(deck) |->
                                        [index |-> i,
                                         title |-> get_slide_title(ShapesOf(deck[i])),
                                         shape_count |-> Len(ShapesOf(deck[i]))]]],
                  {"Slides.Count"}, d, deck)

(* -------------------------- get_selected_shapes ------------------------ *)
\* What the host's active window shows when it is asked: the slide in view
\* (a position of the active document), the selection type (0: nothing,
\* 2: shapes, 3: text) and the selected shapes (positions on that slide).
\* the window was not read
NoWindow == [slide |-> 0, type |-> -1, sel |-> {}]

Selections(slide, ty) ==
    {x \in SUBSET (1..Len(slide)) :
        /\ ty = 0 => x = {}
        /\ ty = 3 => Cardinality(x) = 1}

Windows ==
    IF active = 0 THEN {}
    ELSE LET deck == docs[active].slides IN
         {[slide |-> 0, type |-> 0, sel |-> {}]} \cup
         UNION {UNION {{[slide |-> i, type |-> ty, sel |-> sl] :
                           sl \in Selections(ShapesOf(deck[i]), ty)} :
                       ty \in {0, 2, 3}} :
                i \in 1..Len(deck)}

\* the lookup never finds the document
FirstHandleNever(reg, d) == 0

\* the handle of the first registry entry that is the document d (p == pres
\* over the dict in insertion order); 0 when no entry is
FirstHandleOf(reg, d) ==
    LET hs == {t \in DOMAIN reg : reg[t] = d} IN
    IF hs = {} THEN 0 ELSE CHOOSE t \in hs : \A u \in hs : t <= u

\* h = -1 stands for presentation_id = None.
\* f: "none", "active" (ActivePresentation raises), "window" (ActiveWindow
\* or its Selection raises) or "selection" (reading the selection raises)
get_selected_shapes(h, ok, win, f) ==
    LET app   == EnsureApp(ok)
        found == FirstHandleOf(presentations, active)
        mint  == h = -1 /\ app /\ active # 0 /\ f # "active" /\ found = 0
        pid   == IF h # -1 THEN h ELSE IF found # 0 THEN found ELSE nextId
        slide == ShapesOf(docs[active].slides[win.slide])
        order == SetToSeq(win.sel)
        infos == [i \in 1..Len(order) |->
                    ShapeInfo(slide[order[i]],
                              find_shape_id(slide, TRUE, order[i]), TRUE)]
        bad   == \E i \in win.sel : ShapeRaises(slide[i])
        host  == EnsureHost
    IN
    /\ f \in SelectedFaults
    /\ ppt_app => ok
    /\ ppt_app' = app
    /\ UNCHANGED <<docs, active>>
    /\ IF h # -1 /\ ~Registered(h) THEN
            /\ f = "none" /\ win = NoWindow
            /\ Finish("get_selected_shapes", h, 0, 0, f, Error(NotFound), host)
            /\ UNCHANGED <<presentations, nextId>>
       ELSE IF ~app \/ active = 0 \/ (h = -1 /\ f = "active") THEN
            \* no connection, no active document, or the host raises
            /\ f \in {"none", "active"} /\ win = NoWindow
            /\ f = "active" => (h = -1 /\ app /\ active # 0)
            /\ Finish("get_selected_shapes", h, 0, 0,
                      IF f = "none" THEN "host" ELSE f, Error(HostFault),
                      host \cup (IF app THEN {"Active"} ELSE {}))
            /\ UNCHANGED <<presentations, nextId>>
       ELSE /\ f # "active"
            /\ mint => nextId <= MaxTokens
            /\ presentations' = IF mint THEN Register(presentations, nextId, active)
                                ELSE presentations
            /\ nextId' = IF mint THEN nextId + 1 ELSE nextId
            /\ IF f = "window" THEN
                    /\ win = NoWindow
                    /\ Finish("get_selected_shapes", h, 0, 0, f, Error(HostFault),
                              host \cup {"Active"})
               ELSE /\ win \in Windows
                    /\ f = "selection" => win.type # 0
                    /\ Finish("get_selected_shapes", h, 0, 0,
                              IF bad THEN "selection" ELSE f,
                              IF f = "selection" \/ bad
                              THEN [Error(HostFault) EXCEPT !.id = pid]
                              ELSE [Result EXCEPT !.id = pid, !.index = win.slide,
                                                  !.shapes = infos],
                              host \cup {"Active"})

(* -------------------------- save_presentation -------------------------- *)
\* the path argument: "" stands for None
SavePaths == {"", "copy.pptx"}
SaveFaults == {"none", "save"}

\* f: "none" or "save" (pres.Save or pres.SaveAs raises)
save_presentation(h, path, f) ==
    IF ~Registered(h) THEN
        f = "none" /\ Unknown("save_presentation", h, IF path = "" THEN 0 ELSE 1, 0)
    ELSE
        LET d  == presentations[h]
            ef == Effective(d, f, "save")
            to == IF path # "" THEN path ELSE docs[d].path
        IN
        /\ f \in SaveFaults
        /\ docs[d].state # "open" => f = "none"
        /\ IF ef = "save" THEN
                /\ docs' = docs
                /\ Finish("save_presentation", h, IF path = "" THEN 0 ELSE 1, 0, ef,
                          Error(HostFault),
                          {IF path # "" THEN "SaveAs" ELSE "Save"})
           ELSE /\ docs' = [docs EXCEPT ![d].path = to, ![d].saved = TRUE]
                /\ Finish("save_presentation", h, IF path = "" THEN 0 ELSE 1, 0, ef,
                          [Result EXCEPT !.file = to],
                          {IF path # "" THEN "SaveAs" ELSE "Save"})
        /\ UNCHANGED <<ppt_app, presentations, nextId, active>>

(* ------------------------ get_presentation_info ------------------------ *)
InfoFaults == {"none", "info"}

\* "is_saved": not pres.Saved
IsSaved(saved) == ~saved

\* f: "none" or "info" (FullName, Slides.Count or Saved raises)
get_presentation_info(h, f) ==
    IF ~Registered(h) THEN f = "none" /\ Unknown("get_presentation_info", h, 0, 0)
    ELSE
        LET d  == presentations[h]
            ef == Effective(d, f, "info")
        IN
        /\ f \in InfoFaults
        /\ docs[d].state # "open" => f = "none"
        /\ Return("get_presentation_info", h, 0, 0, ef,
                  IF ef = "info" THEN Error(HostFault)
                  ELSE [Result EXCEPT !.id = h, !.file = docs[d].path,
                                      !.count = Len(docs[d].slides),
                                      !.is_saved = IsSaved(docs[d].saved)],
                  {"FullName", "Slides.Count", "Saved"}, d, docs[d].slides)

(* ----------------------- slide and shape identifiers ------------------ *)
\* A string is the sequence of its characters; the double quote, the single
\* quote and the backtick are written DQ, SQ and BQ.  An identifier argument
\* is a str (chars) or an int (val).
DQ == "dq"
SQ == "sq"
BQ == "bq"
StrId(cs) == [str |-> TRUE, chars |-> cs, val |-> 0]
IntId(i) == [str |-> FALSE, chars |-> << >>, val |-> i]

QuoteChars == {DQ, SQ, BQ}
Blanks == {" "}
Digits == <<"0", "1", "2", "3", "4", "5", "6", "7", "8", "9">>
IsDigit(c) == \E v \in 1..10 : Digits[v] = c
DigitValue(c) == (CHOOSE v \in 1..10 : Digits[v] = c) - 1

\* str.strip(chars): every leading and every trailing character of the set
RECURSIVE LStrip(_, _)
LStrip(cs, set) ==
    IF cs # << >> /\ Head(cs) \in set THEN LStrip(Tail(cs), set) ELSE cs
RECURSIVE RStrip(_, _)
RStrip(cs, set) ==
    IF cs # << >> /\ cs[Len(cs)] \in set
    THEN RStrip(SubSeq(cs, 1, Len(cs) - 1), set) ELSE cs
Strip(cs, set) == RStrip(LStrip(cs, set), set)

\* str(i) of an int
RECURSIVE NatChars(_)
NatChars(n) ==
    IF n < 10 THEN << Digits[n + 1] >>
    ELSE NatChars(n \div 10) \o << Digits[(n % 10) + 1] >>
IntChars(i) == IF i < 0 THEN <<"-">> \o NatChars(-i) ELSE NatChars(i)

RECURSIVE DigitsValue(_)
DigitsValue(ds) ==
    IF ds = << >> THEN 0
    ELSE 10 * DigitsValue(SubSeq(ds, 1, Len(ds) - 1)) + DigitValue(ds[Len(ds)])

\* int(s) over the characters of IdChars: blanks around the number are
\* dropped, a sign may lead, and what is left must be digits; ok is FALSE
\* where int raises ValueError
ParseInt(cs) ==
    LET t      == Strip(cs, Blanks)
        signed == t # << >> /\ Head(t) \in {"-", "+"}
        ds     == IF signed THEN Tail(t) ELSE t
        ok     == ds # << >> /\ \A k \in 1..Len(ds) : IsDigit(ds[k])
    IN [ok |-> ok,
        val |-> IF ~ok THEN 0
                ELSE IF signed /\ Head(t) = "-" THEN 0 - DigitsValue(ds)
                ELSE DigitsValue(ds)]

\* only double quotes are stripped
CleanDoubleQuotesOnly(id) ==
    IF id.str THEN Strip(id.chars, {DQ}) ELSE IntChars(id.val)

\* the identifier without its quotes when it is a str, else str() of it
Clean(id) == IF id.str THEN Strip(id.chars, QuoteChars) ELSE IntChars(id.val)

\* what cannot be parsed counts as position 0
ResolveLenient(id) == [ok |-> TRUE, val |-> ParseInt(Clean(id)).val]

\* "slide_idx = int(clean_slide_id)"
Resolve(id) == ParseInt(Clean(id))

(* --------------------------- the text tools ---------------------------- *)
\* f: "none", "count" (Slides.Count raises), "item" (Slides.Item raises),
\* "shapes" (Shapes.Count raises) or "write" (the host raises while the
\* shape is read or written)
TextFaults == {"none", "count", "item", "shapes", "write"}
NewTexts == {"X"}

\* the branch of update_text that finds a text to write: TextFrame2 with
\* HasText, else a TextFrame with a TextRange; "raise" when the host raises
TextTarget(sh) ==
    IF sh.tf2.state = "fault" THEN "raise"
    ELSE IF sh.tf2.state = "ok" /\ sh.tf2.hasText \in {"fault", "absent"}
         THEN "raise"
    ELSE IF sh.tf2.state = "ok" /\ Truthy(sh.tf2.hasText) THEN "yes"
    ELSE HasReadableRange(sh.tf)

\* the branch of set_text_font_size / set_text_font_name that finds a font:
\* TextFrame2 when the shape has one, else a TextFrame with a TextRange
FontTarget(sh) ==
    IF sh.tf2.state = "fault" THEN "raise"
    ELSE IF sh.tf2.state = "ok" /\ sh.tf2.range = "ok" THEN "yes"
    ELSE HasReadableRange(sh.tf)

\* where op finds what it writes in a shape
Target(op, sh) == IF op = "update_text" THEN TextTarget(sh) ELSE FontTarget(sh)

\* the shape once op wrote value
Write(op, cell, value) ==
    IF op = "update_text" THEN [cell EXCEPT !.text = value]
    ELSE IF op = "set_text_font_size" THEN [cell EXCEPT !.font[1] = value]
    ELSE [cell EXCEPT !.font[2] = value]

\* The frame update_text, set_text_font_size and set_text_font_name share:
\* the identifiers are parsed, the slide and the shape are looked up, and
\* value is written where the tool finds a text or a font.  The two count
\* reads stand outside every try block.
EditShape(op, h, sid, shid, value, f) ==
    IF ~Registered(h) THEN f = "none" /\ Unknown(op, h, sid, shid)
    ELSE
        LET d    == presentations[h]
            deck == docs[d].slides
            ps   == Resolve(sid)
            pj   == Resolve(shid)
            i    == ps.val
            j    == pj.val
            ef   == Effective(d, f, "count")
            raised == [Error(HostFault) EXCEPT !.kind = "raised"]
            hostI == {"Slides.Count", "Slides.Item"}
        IN
        /\ f \in TextFaults
        /\ docs[d].state # "open" => f = "none"
        /\ IF ~ps.ok \/ ~pj.ok THEN
                /\ f = "none"
                /\ Return(op, h, sid, shid, f, Error(InvalidFormat), {}, d, deck)
           ELSE IF i < 1 THEN
                /\ f = "none"
                /\ Return(op, h, sid, shid, f, Error(InvalidSlide), {}, d, deck)
           ELSE IF ef = "count" THEN
                Return(op, h, sid, shid, ef, raised, {"Slides.Count"}, d, deck)
           ELSE IF i > Len(deck) THEN
                /\ ef = "none"
                /\ Return(op, h, sid, shid, ef, Error(InvalidSlide),
                          {"Slides.Count"}, d, deck)
           ELSE IF ef = "item" THEN
                Return(op, h, sid, shid, ef, Error(HostFault), hostI, d, deck)
           ELSE IF j < 1 THEN
                /\ ef = "none"
                /\ Return(op, h, sid, shid, ef, Error(InvalidShape), hostI, d, deck)
           ELSE IF ef = "shapes" THEN
                Return(op, h, sid, shid, ef, raised,
                       hostI \cup {"Shapes.Count"}, d, deck)
           ELSE IF j > Len(deck[i]) THEN
                /\ ef = "none"
                /\ Return(op, h, sid, shid, ef, Error(InvalidShape),
                          hostI \cup {"Shapes.Count"}, d, deck)
           ELSE LET hostS == hostI \cup {"Shapes.Count", "Shapes.Item"}
                    found == Target(op, ShapeOf(deck[i][j]))
                IN
                IF ef = "write" \/ found = "raise" THEN
                     Return(op, h, sid, shid, "write", Error(HostFault), hostS,
                            d, deck)
                ELSE IF found = "no" THEN
                     Return(op, h, sid, shid, ef, Error(NotEditable), hostS,
                            d, deck)
                ELSE Return(op, h, sid, shid, ef,
                            [Result EXCEPT !.index = j], hostS, d,
                            [deck EXCEPT ![i][j] = Write(op, deck[i][j], value)])

update_text(h, sid, shid, text, f) ==
    EditShape("update_text", h, sid, shid, text, f)

FontSizes == {2}
FontNames == {"g"}

set_text_font_size(h, sid, shid, size, f) ==
    EditShape("set_text_font_size", h, sid, shid, size, f)

set_text_font_name(h, sid, shid, name, f) ==
    EditShape("set_text_font_name", h, sid, shid, name, f)

\* f: "none", "count", "add" (Slides.Item or AddTextbox raises) or "text"
\* (writing the text raises, after the box was added)
AddBoxFaults == {"none", "count", "add", "text"}
\* the geometry a call passes: left, top, width, height
BoxGeom == <<1, 1, 4, 2>>

\* Shapes.AddTextbox: the new box is the last shape of the slide
AddTextbox(slide, geom) ==
    Append(slide, [Cell("textbox", "") EXCEPT !.geom = geom])

add_text_box(h, sid, text, f) ==
    IF ~Registered(h) THEN f = "none" /\ Unknown("add_text_box", h, sid, IntId(0))
    ELSE
        LET d    == presentations[h]
            deck == docs[d].slides
            ps   == Resolve(sid)
            i    == ps.val
            ef   == Effective(d, f, "count")
            op   == "add_text_box"
            none == IntId(0)
            host == {"Slides.Count", "Slides.Item", "AddTextbox"}
        IN
        /\ f \in AddBoxFaults
        /\ docs[d].state # "open" => f = "none"
        /\ IF ~ps.ok THEN
                /\ f = "none"
                /\ Return(op, h, sid, none, f, Error(InvalidSlideFormat), {}, d,
                          deck)
           ELSE IF i < 1 THEN
                /\ f = "none"
                /\ Return(op, h, sid, none, f, Error(InvalidSlide), {}, d, deck)
           ELSE IF ef = "count" THEN
                Return(op, h, sid, none, ef, Error(HostFault), {"Slides.Count"},
                       d, deck)
           ELSE IF i > Len(deck) THEN
                /\ ef = "none"
                /\ Return(op, h, sid, none, ef, Error(InvalidSlide),
                          {"Slides.Count"}, d, deck)
           ELSE IF ef = "add" THEN
                Return(op, h, sid, none, ef, Error(HostFault), host, d, deck)
           ELSE LET added == AddTextbox(deck[i], BoxGeom)
                    n     == Len(added)
                IN
                /\ Len(deck[i]) < MaxShapes
                /\ IF ef = "text" THEN
                        Return(op, h, sid, none, ef, Error(HostFault), host, d,
                               [deck EXCEPT ![i] = added])
                   ELSE Return(op, h, sid, none, ef,
                               [Result EXCEPT
                                   !.index = find_shape_id(added, TRUE, n)],
                               host, d,
                               [deck EXCEPT ![i] = [added EXCEPT ![n].text = text]])

(* --------------------------- set_slide_title --------------------------- *)
SetTitleFailed == "Error setting slide title"
\* f: "none", "count" (Slides.Count raises), "item" (Slides.Item raises),
\* "add" (AddTextbox raises) or "write" (writing the text raises)
TitleFaults == {"none", "count", "item", "add", "write"}
NewTitles == {"T", " "}
\* slide.Shapes.AddTextbox(1, 50, 50, 600, 50) and Font.Size = 44
TitleBoxGeom == <<50, 50, 600, 50>>
TitleFontSize == 44

\* "int(slide_id.strip(...))" with the double and the single quote; an int
\* has no strip, and what int cannot read raises
TitleSlideIndex(id) ==
    IF id.str THEN ParseInt(Strip(id.chars, {DQ, SQ})) ELSE [ok |-> FALSE, val |-> 0]

\* the loop over slide.Shapes: the position of the first title placeholder
\* that has a TextFrame with a TextRange, 0 when there is none, -1 when
\* the host raises on the way
RECURSIVE TitleTarget(_, _)
TitleTarget(shapes, i) ==
    IF i > Len(shapes) THEN 0
    ELSE LET sh == shapes[i] IN
         IF "Type" \in sh.fault THEN -1
         ELSE IF sh.type # msoPlaceholder THEN TitleTarget(shapes, i + 1)
         ELSE IF "PlaceholderFormat" \in sh.fault THEN -1
         ELSE IF sh.ph # ppPlaceholderTitle THEN TitleTarget(shapes, i + 1)
         ELSE LET r == HasReadableRange(sh.tf) IN
              IF r = "raise" THEN -1
              ELSE IF r = "no" THEN TitleTarget(shapes, i + 1)
              ELSE i

\* the slide after the title was set: written into the title placeholder
\* at position at, or (at = 0) into a new text box
TitleSet(slide, at, title) ==
    IF at > 0 THEN [slide EXCEPT ![at].text = title]
    ELSE LET added == AddTextbox(slide, TitleBoxGeom)
             n     == Len(added)
         IN [added EXCEPT ![n].text = title,
                          ![n].font = <<TitleFontSize, @[2]>>]

set_slide_title(h, sid, title, f) ==
    IF ~Registered(h) THEN f = "none" /\ Unknown("set_slide_title", h, sid, title)
    ELSE
        LET d    == presentations[h]
            deck == docs[d].slides
            ps   == TitleSlideIndex(sid)
            i    == ps.val
            ef   == Effective(d, f, "count")
            op   == "set_slide_title"
        IN
        /\ f \in TitleFaults
        /\ docs[d].state # "open" => f = "none"
        /\ IF ~ps.ok THEN
                /\ f = "none"
                /\ Return(op, h, sid, title, f, Error(SetTitleFailed), {}, d, deck)
           ELSE IF i < 1 THEN
                /\ f = "none"
                /\ Return(op, h, sid, title, f, Error(InvalidSlide), {}, d, deck)
           ELSE IF ef = "count" THEN
                Return(op, h, sid, title, ef, Error(SetTitleFailed),
                       {"Slides.Count"}, d, deck)
           ELSE IF i > Len(deck) THEN
                /\ ef = "none"
                /\ Return(op, h, sid, title, ef, Error(InvalidSlide),
                          {"Slides.Count"}, d, deck)
           ELSE IF ef = "item" THEN
                Return(op, h, sid, title, ef, Error(SetTitleFailed),
                       {"Slides.Count", "Slides.Item"}, d, deck)
           ELSE LET at   == TitleTarget(ShapesOf(deck[i]), 1)
                    host == {"Slides.Count", "Slides.Item"}
                IN
                IF at = -1 THEN
                    /\ ef = "none"
                    /\ Return(op, h, sid, title, "shape", Error(SetTitleFailed),
                              host, d, deck)
                ELSE IF at > 0 THEN
                    /\ ef \in {"none", "write"}
                    /\ IF ef = "write"
                       THEN Return(op, h, sid, title, ef, Error(SetTitleFailed),
                                   host, d, deck)
                       ELSE Return(op, h, sid, title, ef,
                                   [Result EXCEPT !.index = i], host, d,
                                   [deck EXCEPT ![i] = TitleSet(deck[i], at, title)])
                ELSE IF ef = "add" THEN
                    Return(op, h, sid, title, ef, Error(SetTitleFailed),
                           host \cup {"AddTextbox"}, d, deck)
                ELSE /\ Len(deck[i]) <= MaxShapes
                     /\ IF ef = "write"
                        THEN Return(op, h, sid, title, ef, Error(SetTitleFailed),
                                    host \cup {"AddTextbox"}, d,
                                    [deck EXCEPT
                                       ![i] = AddTextbox(deck[i], TitleBoxGeom)])
                        ELSE Return(op, h, sid, title, ef,
                                    [Result EXCEPT !.index = i],
                                    host \cup {"AddTextbox"}, d,
                                    [deck EXCEPT ![i] = TitleSet(deck[i], at, title)])

(* ------------------------- export_slide_as_image ----------------------- *)
\* an optional int argument: None or a value
NoSize == [given |-> FALSE, val |-> 0]
Size(v) == [given |-> TRUE, val |-> v]
\* the <<width, height>> a call asks for
SizeArgs == {<<NoSize, NoSize>>, <<Size(300), NoSize>>, <<Size(960), NoSize>>,
             <<NoSize, Size(540)>>, <<Size(300), Size(540)>>}

ImageFormats == {"PNG", "jpeg", "GIF"}
Upper(fmt) == IF fmt = "jpeg" THEN "JPEG" ELSE fmt
Lower(fmt) ==
    IF fmt = "PNG" THEN "png"
    ELSE IF fmt = "GIF" THEN "gif"
    ELSE fmt
InvalidImageFormat == "Invalid image format"
DefaultWidth == 1920

\* int(x) of the quotient a / b of two positive numbers
IntDiv(a, b) == a \div b

\* <<export_width, export_height>> for a page <<W, H>>; aspect_ratio is
\* W / H, so width / aspect_ratio is width * H / W
ExportSize(page, width, height) ==
    LET W == page[1]
        H == page[2]
    IN
    IF ~width.given /\ ~height.given
    THEN <<DefaultWidth, IntDiv(DefaultWidth * H, W)>>
    ELSE IF width.given /\ ~height.given
    THEN <<width.val, IntDiv(width.val * H, W)>>
    ELSE IF ~width.given /\ height.given
    THEN <<IntDiv(height.val * W, H), height.val>>
    ELSE <<width.val, height.val>>

\* strftime("%Y%m%d_%H%M%S"): the time in whole seconds
Timestamp(now) == now

FileExt(fmt) == IF Upper(fmt) # "JPEG" THEN Lower(fmt) ELSE "jpg"

\* the file name in the temporary directory
ExportPath(k, now, fmt) ==
    <<"slide", k, Timestamp(now), FileExt(fmt), FileExt(fmt)>>

\* f: "none", "count" (Slides.Count raises) or "export" (PageSetup,
\* Slides.Item or Export raises)
ExportFaults == {"none", "count", "export"}

export_slide_as_image(h, k, fmt, width, height, f) ==
    LET op   == "export_slide_as_image"
        args == [format |-> fmt, width |-> width, height |-> height]
    IN
    IF ~Registered(h) THEN f = "none" /\ Unknown(op, h, k, args)
    ELSE
        LET d    == presentations[h]
            deck == docs[d].slides
            ef   == Effective(d, f, "count")
            size == ExportSize(docs[d].page, width, height)
            path == ExportPath(k, clock, fmt)
            host == {"Slides.Count", "PageSetup", "Slides.Item", "Export"}
        IN
        /\ f \in ExportFaults
        /\ docs[d].state # "open" => f = "none"
        /\ IF ef = "count" THEN
                Return(op, h, k, args, ef, Error(HostFault), {"Slides.Count"},
                       d, deck)
           ELSE IF InvalidPos(k, Len(deck)) THEN
                /\ ef = "none"
                /\ Return(op, h, k, args, ef, Error(InvalidSlide),
                          {"Slides.Count"}, d, deck)
           ELSE IF Upper(fmt) \notin {"PNG", "JPG", "JPEG"} THEN
                /\ ef = "none"
                /\ Return(op, h, k, args, ef, Error(InvalidImageFormat),
                          {"Slides.Count"}, d, deck)
           ELSE IF ef = "export" THEN
                Return(op, h, k, args, ef, Error(HostFault), host, d, deck)
           ELSE /\ Len(exported) < MaxExports
                /\ exported' = Append(exported, path)
                /\ Record(op, h, k, args, ef,
                          [Result EXCEPT !.path = path, !.index = k,
                                         !.width = size[1], !.height = size[2]],
                          host)
                /\ UNCHANGED <<ppt_app, presentations, nextId, docs, active,
                               clock, ids>>

(* ------------------- copy_shape and set_shape_position ----------------- *)
InvalidSource == "Invalid source slide ID"
InvalidTarget == "Invalid target slide ID"

\* Shapes.Paste: the copy of the shape on the clipboard becomes the last
\* shape of the slide
PasteShape(slide, cell) == Append(slide, cell)

\* left and top are taken only together
SetGeomBoth(geom, args) ==
    [c \in 1..4 |->
        IF args[c].given /\ (c \in 1..2 => args[1].given /\ args[2].given)
        THEN args[c].val ELSE geom[c]]

\* the geometry with the given ones of Left, Top, Width, Height set
SetGeom(geom, args) ==
    [c \in 1..4 |-> IF args[c].given THEN args[c].val ELSE geom[c]]

\* f: "none", "count", "paste" (Slides.Item, Shapes.Count, Copy or Paste
\* raises) or "place" (the host raises once the copy is pasted)
ShapeCopyFaults == {"none", "count", "paste", "place"}

copy_shape(h, s, j, t, left, top, f) ==
    LET op   == "copy_shape"
        args == [shape |-> j, target |-> t, left |-> left, top |-> top]
    IN
    IF ~Registered(h) THEN f = "none" /\ Unknown(op, h, s, args)
    ELSE
        LET d    == presentations[h]
            deck == docs[d].slides
            ef   == Effective(d, f, "count")
            hostI == {"Slides.Count", "Slides.Item", "Shapes.Count"}
            hostP == hostI \cup {"Copy", "Paste"}
        IN
        /\ f \in ShapeCopyFaults
        /\ docs[d].state # "open" => f = "none"
        /\ IF ef = "count" THEN
                Return(op, h, s, args, ef, Error(HostFault), {"Slides.Count"},
                       d, deck)
           ELSE IF InvalidPos(s, Len(deck)) THEN
                /\ ef = "none"
                /\ Return(op, h, s, args, ef, Error(InvalidSource),
                          {"Slides.Count"}, d, deck)
           ELSE IF InvalidPos(t, Len(deck)) THEN
                /\ ef = "none"
                /\ Return(op, h, s, args, ef, Error(InvalidTarget),
                          {"Slides.Count"}, d, deck)
           ELSE IF InvalidPos(j, Len(deck[s])) THEN
                /\ ef = "none"
                /\ Return(op, h, s, args, ef, Error(InvalidShape), hostI, d, deck)
           ELSE IF ef = "paste" THEN
                Return(op, h, s, args, ef, Error(HostFault), hostI, d, deck)
           ELSE LET pasted == PasteShape(deck[t], deck[s][j])
                    new_shape_id == Len(pasted)
                    placed == [pasted EXCEPT ![new_shape_id].geom =
                                 SetGeom(@, <<left, top, NoSize, NoSize>>)]
                IN
                /\ Len(deck[t]) < MaxShapes
                /\ IF ef = "place" THEN
                        Return(op, h, s, args, ef, Error(HostFault), hostP, d,
                               [deck EXCEPT ![t] = pasted])
                   ELSE Return(op, h, s, args, ef,
                               [Result EXCEPT !.index = new_shape_id,
                                              !.shapes = placed[new_shape_id].geom],
                               hostP, d, [deck EXCEPT ![t] = placed])

\* f: "none", "count" or "item" (Slides.Item, Shapes.Count, Shapes.Item or
\* an assignment raises)
PositionFaults == {"none", "count", "item"}

set_shape_position(h, s, j, geom, f) ==
    LET op == "set_shape_position" IN
    IF ~Registered(h) THEN f = "none" /\ Unknown(op, h, s, j)
    ELSE
        LET d    == presentations[h]
            deck == docs[d].slides
            ef   == Effective(d, f, "count")
            hostI == {"Slides.Count", "Slides.Item", "Shapes.Count"}
        IN
        /\ f \in PositionFaults
        /\ docs[d].state # "open" => f = "none"
        /\ IF ef = "count" THEN
                Return(op, h, s, j, ef, Error(HostFault), {"Slides.Count"},
                       d, deck)
           ELSE IF InvalidPos(s, Len(deck)) THEN
                /\ ef = "none"
                /\ Return(op, h, s, j, ef, Error(InvalidSlide),
                          {"Slides.Count"}, d, deck)
           ELSE IF ef = "item" THEN
                Return(op, h, s, j, ef, Error(HostFault), hostI, d, deck)
           ELSE IF InvalidPos(j, Len(deck[s])) THEN
                Return(op, h, s, j, ef, Error(InvalidShape), hostI, d, deck)
           ELSE LET new == SetGeom(deck[s][j].geom, geom) IN
                Return(op, h, s, j, ef, [Result EXCEPT !.index = j, !.shapes = new],
                       hostI \cup {"Shapes.Item"}, d,
                       [deck EXCEPT ![s][j].geom = new])

\* a second passes
Tick ==
    /\ clock < MaxClock
    /\ clock' = clock + 1
    /\ UNCHANGED <<ppt_app, presentations, nextId, docs, active, last, prev,
                   exported, ids>>

(* ----------------------------- specification --------------------------- *)
\* The registry and the connection: opening, creating, enumerating and
\* closing documents, and the read-only queries.
Next ==
    \/ \E ok \in BOOLEAN : initialize_powerpoint(ok)
    \/ \E ok \in BOOLEAN, f \in -1..MaxDocs : get_presentations(ok, f)
    \/ \E path \in Paths, ok \in BOOLEAN, f \in OpenFaults :
          open_presentation(path, ok, f)
    \/ \E ok \in BOOLEAN, f \in CreateFaults : create_presentation(ok, f)
    \/ \E h \in Handles, save \in BOOLEAN, f \in CloseFaults :
          close_presentation(h, save, f)
    \/ \E d \in DocIds : UserActivate(d)
    \/ \E h \in Handles, f \in SlidesFaults : get_slides(h, f)
    \/ \E h \in {-1} \cup Handles, ok \in BOOLEAN, f \in SelectedFaults :
          \E win \in {NoWindow} \cup Windows : get_selected_shapes(h, ok, win, f)

Spec == Init /\ [][Next]_vars

\* The structural edits of one document: the state right after
\* open_presentation("deck.pptx") on a fresh server, then any sequence of
\* slide edits and listings.
InitEdit ==
    /\ ppt_app = TRUE
    /\ presentations = <<1>>
    /\ nextId = 2
    /\ docs = [d \in DocIds |->
                 IF d = 1 THEN [state |-> "open", path |-> "deck.pptx",
                                slides |-> FileDeck("deck.pptx"),
                                page |-> WidePage, saved |-> TRUE]
                 ELSE NoDoc]
    /\ active = 1
    /\ last = [op |-> "open_presentation", h |-> 0, a |-> 1, b |-> 0,
               fault |-> "none",
               res |-> [Result EXCEPT !.id = 1, !.count = 2],
               host |-> {"initialize", "Presentations.Open"},
               pre |-> [presentations |-> << >>,
                        docs |-> [d \in DocIds |-> NoDoc], active |-> 0]]
    /\ prev = NoPrev
    /\ clock = 0
    /\ exported = << >>
    /\ ids = << >>

\* the handle of the document and one that was never minted
EditHandles == {0, 1}

NextEdit ==
    \/ \E h \in EditHandles, layout \in Layouts, f \in AddFaults : add_slide(h, layout, f)
    \/ \E h \in EditHandles, k \in Positions, a \in {-1} \cup Positions, f \in CopyFaults :
          copy_slide(h, k, a, f)
    \/ \E h \in EditHandles, k \in Positions, f \in DeleteFaults : delete_slide(h, k, f)
    \/ \E h \in EditHandles, s \in Positions, p \in Positions, f \in MoveFaults :
          move_slide(h, s, p, f)
    \/ \E h \in EditHandles, k \in Positions, f \in ListFaults :
          list_all_shapes_in_slide(h, k, f)
    \/ \E h \in EditHandles, f \in SlidesFaults : get_slides(h, f)

SpecEdit == InitEdit /\ [][NextEdit]_vars

\* Saving, changing and querying one opened deck.
NextSaved ==
    \/ \E h \in EditHandles, layout \in Layouts, f \in AddFaults : add_slide(h, layout, f)
    \/ \E h \in EditHandles, k \in Positions, f \in DeleteFaults : delete_slide(h, k, f)
    \/ \E h \in EditHandles, path \in SavePaths, f \in SaveFaults :
          save_presentation(h, path, f)
    \/ \E h \in EditHandles, f \in InfoFaults : get_presentation_info(h, f)

SpecSaved == InitEdit /\ [][NextSaved]_vars

\* The text tools on one opened deck.  The identifiers the caller addresses
\* the slide and the shape with are fixed at the start: both one of the
\* four spellings of an integer, or one of them any string or integer and
\* the other the integer 1.
IdChars == QuoteChars \cup Blanks \cup {"1", "x", "-"}
RECURSIVE StringsOf(_)
StringsOf(n) ==
    IF n = 0 THEN {<< >>}
    ELSE LET shorter == StringsOf(n - 1) IN
         shorter \cup {Append(cs, c) : cs \in shorter, c \in IdChars}
IdInts == -1..(MaxShapes + 1)
AnyIds == {StrId(cs) : cs \in StringsOf(MaxIdLen)} \cup {IntId(i) : i \in IdInts}
\* the integer, the bare string, and the string in double and in single quotes
Forms(i) ==
    {IntId(i), StrId(IntChars(i)),
     StrId(<<DQ>> \o IntChars(i) \o <<DQ>>),
     StrId(<<SQ>> \o IntChars(i) \o <<SQ>>)}
FormIds == UNION {Forms(i) : i \in 0..MaxShapes}

InitIds ==
    /\ ppt_app = TRUE
    /\ presentations = <<1>>
    /\ nextId = 2
    /\ docs = [d \in DocIds |->
                 IF d = 1 THEN [state |-> "open", path |-> "deck.pptx",
                                slides |-> FileDeck("deck.pptx"),
                                page |-> WidePage, saved |-> TRUE]
                 ELSE NoDoc]
    /\ active = 1
    /\ last = [op |-> "open_presentation", h |-> 0, a |-> 1, b |-> 0,
               fault |-> "none",
               res |-> [Result EXCEPT !.id = 1, !.count = 2],
               host |-> {"initialize", "Presentations.Open"},
               pre |-> [presentations |-> << >>,
                        docs |-> [d \in DocIds |-> NoDoc], active |-> 0]]
    /\ prev = NoPrev
    /\ clock = 0
    /\ exported = << >>
    /\ \E sid \in AnyIds \cup FormIds, shid \in AnyIds \cup FormIds :
          /\ \/ sid \in FormIds /\ shid \in FormIds
             \/ sid = IntId(1)
             \/ shid = IntId(1)
          /\ ids = <<sid, shid>>

NextIds ==
    \/ \E h \in EditHandles, text \in NewTexts, f \in TextFaults :
          update_text(h, ids[1], ids[2], text, f)
    \/ \E h \in EditHandles, text \in NewTexts, f \in AddBoxFaults :
          add_text_box(h, ids[1], text, f)
    \/ \E h \in EditHandles, size \in FontSizes, f \in TextFaults :
          set_text_font_size(h, ids[1], ids[2], size, f)
    \/ \E h \in EditHandles, name \in FontNames, f \in TextFaults :
          set_text_font_name(h, ids[1], ids[2], name, f)

SpecIds == InitIds /\ [][NextIds]_vars

\* The read-only listings on a deck of one slide, whose shapes are drawn
\* from the kinds of shape above.
CellKinds == {"title", "textbox", "legacy", "hostTitle", "hostLegacy",
              "frame2Fault", "named"}
CellTexts == {"", " ", "A", "B"}
AnyCells == {Cell(kind, t) : kind \in CellKinds, t \in CellTexts}
               \cup {Cell("picture", ""), Cell("faulty", "")}
RECURSIVE SlidesOf(_)
SlidesOf(n) ==
    IF n = 0 THEN {<< >>}
    ELSE LET shorter == SlidesOf(n - 1) IN
         shorter \cup {Append(sl, c) : sl \in shorter, c \in AnyCells}

InitClassify ==
    /\ ppt_app = TRUE
    /\ presentations = <<1>>
    /\ nextId = 2
    /\ \E slide \in SlidesOf(MaxShapes) :
          docs = [d \in DocIds |->
                    IF d = 1 THEN [state |-> "open", path |-> "deck.pptx",
                                   slides |-> << slide >>, page |-> WidePage, saved |-> TRUE]
                    ELSE NoDoc]
    /\ active = 1
    /\ last = [op |-> "open_presentation", h |-> 0, a |-> 1, b |-> 0,
               fault |-> "none",
               res |-> [Result EXCEPT !.id = 1, !.count = 1],
               host |-> {"initialize", "Presentations.Open"},
               pre |-> [presentations |-> << >>,
                        docs |-> [d \in DocIds |-> NoDoc], active |-> 0]]
    /\ prev = NoPrev
    /\ clock = 0
    /\ exported = << >>
    /\ ids = << >>

NextClassify ==
    \/ \E h \in EditHandles, k \in Positions, f \in ListFaults :
          list_all_shapes_in_slide(h, k, f)
    \/ \E h \in EditHandles, f \in SlidesFaults : get_slides(h, f)

SpecClassify == InitClassify /\ [][NextClassify]_vars

\* Setting and reading the title of the one slide of a deck, whose shapes
\* are drawn at the start.
TitleCells == {Cell("title", ""), Cell("title", "A"), Cell("textbox", ""),
               Cell("textbox", "B"), Cell("picture", "")}
TitleSlides ==
    {<< >>} \cup {<<c>> : c \in TitleCells}
            \cup {<<c, e>> : c \in TitleCells, e \in TitleCells}
TitleIds == {StrId(<<"1">>), StrId(<<DQ, "1", DQ>>), StrId(<<"2">>),
             StrId(<<"x">>), IntId(1)}

InitTitle ==
    /\ ppt_app = TRUE
    /\ presentations = <<1>>
    /\ nextId = 2
    /\ \E slide \in TitleSlides :
          docs = [d \in DocIds |->
                    IF d = 1 THEN [state |-> "open", path |-> "deck.pptx",
                                   slides |-> << slide >>, page |-> WidePage,
                                   saved |-> TRUE]
                    ELSE NoDoc]
    /\ active = 1
    /\ last = [op |-> "open_presentation", h |-> 0, a |-> 1, b |-> 0,
               fault |-> "none",
               res |-> [Result EXCEPT !.id = 1, !.count = 1],
               host |-> {"initialize", "Presentations.Open"},
               pre |-> [presentations |-> << >>,
                        docs |-> [d \in DocIds |-> NoDoc], active |-> 0]]
    /\ prev = NoPrev
    /\ clock = 0
    /\ exported = << >>
    /\ ids = << >>

NextTitle ==
    \/ \E h \in EditHandles, sid \in TitleIds, t \in NewTitles, f \in TitleFaults :
          set_slide_title(h, sid, t, f)
    \/ \E h \in EditHandles, f \in SlidesFaults : get_slides(h, f)

SpecTitle == InitTitle /\ [][NextTitle]_vars

\* The exports of a deck of one slide whose page is widescreen or 4:3,
\* while the clock runs.
Pages == {WidePage, StandardPage}

InitExport ==
    /\ ppt_app = TRUE
    /\ presentations = <<1>>
    /\ nextId = 2
    /\ \E page \in Pages :
          docs = [d \in DocIds |->
                    IF d = 1 THEN [state |-> "open", path |-> "deck.pptx",
                                   slides |-> << SlideA >>, page |-> page, saved |-> TRUE]
                    ELSE NoDoc]
    /\ active = 1
    /\ last = [op |-> "open_presentation", h |-> 0, a |-> 1, b |-> 0,
               fault |-> "none",
               res |-> [Result EXCEPT !.id = 1, !.count = 1],
               host |-> {"initialize", "Presentations.Open"},
               pre |-> [presentations |-> << >>,
                        docs |-> [d \in DocIds |-> NoDoc], active |-> 0]]
    /\ prev = NoPrev
    /\ clock = 0
    /\ exported = << >>
    /\ ids = << >>

NextExport ==
    \/ \E h \in EditHandles, k \in 0..2, fmt \in ImageFormats,
          size \in SizeArgs, f \in ExportFaults :
          export_slide_as_image(h, k, fmt, size[1], size[2], f)
    \/ Tick

SpecExport == InitExport /\ [][NextExport]_vars

\* The shapes of an opened deck: copying them between slides and placing
\* them, while slides are added and deleted.
\* the <<left, top>> a copy_shape call asks for
CopyOffsets == {<<NoSize, NoSize>>, <<Size(5), NoSize>>, <<NoSize, Size(5)>>}
\* the <<left, top, width, height>> a set_shape_position call asks for
GeomArgs == {<<NoSize, NoSize, NoSize, NoSize>>,
             <<Size(0), NoSize, NoSize, NoSize>>}
\* the <<source slide, source shape, target slide>> of a copy_shape call:
\* positions a deck can have, or one position that no deck has
CopyArgs ==
    ((1..MaxSlides) \X (1..MaxShapes) \X (1..MaxSlides))
        \cup {<<s, 1, 1>> : s \in {0, MaxSlides + 1}}
        \cup {<<1, j, 1>> : j \in {0, MaxShapes + 1}}
        \cup {<<1, 1, t>> : t \in {0, MaxSlides + 1}}
\* the <<slide, shape>> of a set_shape_position call, likewise
PositionArgs ==
    ((1..MaxSlides) \X (1..MaxShapes))
        \cup {<<s, 1>> : s \in {0, MaxSlides + 1}}
        \cup {<<1, j>> : j \in {0, MaxShapes + 1}}

NextShapes ==
    \/ \E h \in EditHandles, a \in CopyArgs, at \in CopyOffsets,
          f \in ShapeCopyFaults :
          copy_shape(h, a[1], a[2], a[3], at[1], at[2], f)
    \/ \E h \in EditHandles, a \in PositionArgs, geom \in GeomArgs,
          f \in PositionFaults :
          set_shape_position(h, a[1], a[2], geom, f)
    \/ \E h \in EditHandles, layout \in Layouts, f \in AddFaults :
          add_slide(h, layout, f)
    \/ \E h \in EditHandles, k \in Positions, f \in DeleteFaults :
          delete_slide(h, k, f)

SpecShapes == InitEdit /\ [][NextShapes]_vars

\* TLC refutes this invariant under Spec: the start of SpecEdit is a state
\* the server reaches
EditStartUnreachable == ~InitEdit

(* ===================== properties of the operations ==================== *)
\* the document, and its deck before and after, of the last call on a
\* registered handle
LastRegistered(op) == last.op = op /\ last.h \in DOMAIN last.pre.presentations
LastDoc == last.pre.presentations[last.h]
PreDeck == last.pre.docs[LastDoc].slides
PostDeck == docs[LastDoc].slides

\* the tools of the model that take a presentation_id
HandleTools == {"close_presentation", "add_slide", "copy_slide", "delete_slide",
                "move_slide", "list_all_shapes_in_slide", "get_slides",
                "get_selected_shapes"}

\* C1: a tool called with a presentation_id that is not a key of the
\* registry returns 'Presentation ID not found', makes no call into the
\* host, and leaves the registry and every document unchanged.
\* get_selected_shapes connects to the host before it looks at the id.
C1_UnknownHandleRejectedLocally ==
    (last.op \in HandleTools /\ last.h # -1
        /\ last.h \notin DOMAIN last.pre.presentations)
    => /\ last.res.kind = "error"
       /\ last.res.error = NotFound
       /\ last.host = {}
       /\ presentations = last.pre.presentations
       /\ docs = last.pre.docs

\* C2: with n the slide count read by the call, copy_slide, delete_slide,
\* move_slide and list_all_shapes_in_slide do not reject a slide position
\* in 1..n; a position outside it gives 'Invalid slide ID', and for
\* move_slide a new_position outside it gives 'Invalid new position'; a
\* rejected call leaves the slide sequence as it was.
C2_PositionRange ==
    \A op \in {"copy_slide", "delete_slide", "move_slide",
               "list_all_shapes_in_slide"} :
        (LastRegistered(op) /\ last.fault # "count") =>
            LET n == Len(PreDeck) IN
            /\ last.a \in 1..n => last.res.error # InvalidSlide
            /\ last.a \notin 1..n =>
                  /\ last.res.kind = "error"
                  /\ last.res.error = InvalidSlide
                  /\ PostDeck = PreDeck
            /\ (op = "move_slide" /\ last.a \in 1..n) =>
                  /\ last.b \in 1..n => last.res.error # InvalidPosition
                  /\ last.b \notin 1..n =>
                        /\ last.res.kind = "error"
                        /\ last.res.error = InvalidPosition
                        /\ PostDeck = PreDeck
            /\ (op \in {"delete_slide", "list_all_shapes_in_slide"}
                   /\ last.a \in 1..n /\ last.fault = "none") =>
                  last.res.kind = "ok"

\* move_slide(1, n + 1) was turned away on a deck of n >= 2 slides
C2_Witness ==
    /\ LastRegistered("move_slide")
    /\ last.a = 1 /\ Len(PreDeck) >= 2 /\ last.b = Len(PreDeck) + 1
    /\ last.res.error = InvalidPosition

\* C3: copy_slide(k) without insert_after on n slides, 1 <= k <= n, succeeds;
\* the deck then has n+1 slides, the first n are the original ones in
\* order, the duplicate is the last one, the index returned is n+1 and the
\* title returned is the title of the source slide.
C3_CopyToEnd ==
    (LastRegistered("copy_slide") /\ last.b = -1 /\ last.fault = "none"
        /\ last.a \in 1..Len(PreDeck)) =>
        LET n == Len(PreDeck)
            k == last.a
        IN
        /\ last.res.kind = "ok"
        /\ Len(PostDeck) = n + 1
        /\ SubSeq(PostDeck, 1, n) = PreDeck
        /\ PostDeck[n + 1] = PreDeck[k]
        /\ last.res.index = n + 1
        /\ last.res.title = get_slide_title(ShapesOf(PreDeck[k]))

\* the first of two different slides was copied to the end
C3_Witness ==
    /\ LastRegistered("copy_slide") /\ last.b = -1 /\ last.res.kind = "ok"
    /\ last.a = 1 /\ Len(PreDeck) = 2 /\ PreDeck[1] # PreDeck[2]
    /\ last.res.title = "A"

\* C4: copy_slide(k, insert_after = a) with 1 <= k <= n and 0 <= a <= n
\* succeeds and returns index a+1; the duplicate is the slide at a+1, the
\* deck has n+1 slides and the n original slides keep their order.
C4_CopyInsertAfter ==
    (LastRegistered("copy_slide") /\ last.fault = "none"
        /\ last.a \in 1..Len(PreDeck) /\ last.b \in 0..Len(PreDeck)) =>
        LET n == Len(PreDeck)
            k == last.a
            a == last.b
        IN
        /\ last.res.kind = "ok"
        /\ last.res.index = a + 1
        /\ Len(PostDeck) = n + 1
        /\ PostDeck[a + 1] = PreDeck[k]
        /\ RemoveAt(PostDeck, a + 1) = PreDeck
        /\ last.res.title = get_slide_title(ShapesOf(PreDeck[k]))

\* the first slide was copied behind a different second slide
C4_Witness ==
    /\ LastRegistered("copy_slide") /\ last.res.kind = "ok"
    /\ last.a = 1 /\ last.b = 2 /\ Len(PreDeck) = 2 /\ PreDeck[1] # PreDeck[2]

\* C5: delete_slide(k) on n slides, 1 <= k <= n, succeeds with
\* new_slide_count = n-1; the slides before k keep their positions and
\* every slide behind k is one position lower.
C5_DeleteShifts ==
    (LastRegistered("delete_slide") /\ last.fault = "none"
        /\ last.a \in 1..Len(PreDeck)) =>
        LET n == Len(PreDeck)
            k == last.a
        IN
        /\ last.res.kind = "ok"
        /\ last.res.count = n - 1
        /\ Len(PostDeck) = n - 1
        /\ \A i \in 1..(k - 1) : PostDeck[i] = PreDeck[i]
        /\ \A i \in (k + 1)..n : PostDeck[i - 1] = PreDeck[i]

\* the middle one of three slides was deleted
C5_Witness ==
    /\ LastRegistered("delete_slide") /\ last.res.kind = "ok"
    /\ last.a = 2 /\ Len(PreDeck) = 3 /\ PreDeck[2] # PreDeck[3]

\* C6: move_slide(s, p) on n slides, 1 <= s, p <= n, succeeds with
\* new_slide_count = n; the content of the slide that was at s is at p and
\* the other slides keep their relative order (p = s: nothing changes).
\* The copy is pasted at p+1 and the original deleted at s when p > s; it
\* is pasted at p and the original deleted at s+1 when p <= s.
C6_MoveSlide ==
    (LastRegistered("move_slide") /\ last.fault = "none"
        /\ last.a \in 1..Len(PreDeck) /\ last.b \in 1..Len(PreDeck)) =>
        LET n == Len(PreDeck)
            s == last.a
            p == last.b
        IN
        /\ last.res.kind = "ok"
        /\ last.res.count = n
        /\ Len(PostDeck) = n
        /\ PostDeck[p] = PreDeck[s]
        /\ RemoveAt(PostDeck, p) = RemoveAt(PreDeck, s)
        /\ p = s => PostDeck = PreDeck
        /\ p > s => (last.res.pasteAt = p + 1 /\ last.res.deleteAt = s)
        /\ p <= s => (last.res.pasteAt = p /\ last.res.deleteAt = s + 1)

\* the first of three slides was moved to the end
C6_Witness ==
    /\ LastRegistered("move_slide") /\ last.res.kind = "ok"
    /\ last.a = 1 /\ last.b = 3 /\ Len(PreDeck) = 3 /\ PreDeck[1] # PreDeck[3]

\* C7: move_slide(s, p) followed by move_slide(p, s) restores the slide
\* order the deck had before the first of the two calls.
C7_MoveRoundTrip ==
    prev # NoPrev => docs[prev.doc].slides = prev.deck

\* move(1, 3) and then move(3, 1) on three slides, the outer two different
C7_Witness ==
    /\ prev # NoPrev /\ prev.a = 1 /\ prev.b = 3
    /\ last.a = 3 /\ last.b = 1
    /\ Len(prev.deck) = 3 /\ prev.deck[1] # prev.deck[3]

\* C8: no registered handle resolves to a document that was closed through
\* close_presentation.  close_presentation removes only the handle it was
\* given; the handles get_presentations and open_presentation minted for
\* the same document stay.
C8_NoHandleToClosedDocument ==
    \A h \in DOMAIN presentations : docs[presentations[h]].state # "closed"

\* C9: get_selected_shapes without a presentation_id leaves the entries of
\* the registry as they are; when a handle already refers to the active
\* document it returns such a handle and adds none, otherwise it adds
\* exactly one, for the active document; and a call that follows another
\* one with the same active document returns the same handle.
C9Step ==
    (last' # last /\ last'.op = "get_selected_shapes" /\ last'.h = -1) =>
        LET found == {t \in DOMAIN presentations : presentations[t] = active}
            new   == (DOMAIN presentations') \ (DOMAIN presentations)
            read  == last'.fault \notin {"active", "host"}
        IN
        /\ \A t \in DOMAIN presentations :
              t \in DOMAIN presentations' /\ presentations'[t] = presentations[t]
        /\ IF found # {} \/ ~read THEN new = {}
           ELSE Cardinality(new) = 1 /\ \A t \in new : presentations'[t] = active
        /\ last'.res.id # 0 =>
              /\ last'.res.id \in DOMAIN presentations'
              /\ presentations'[last'.res.id] = active
              /\ found # {} => last'.res.id \in found
        /\ (last.op = "get_selected_shapes" /\ last.h = -1 /\ last.res.id # 0
               /\ last'.res.id # 0 /\ last.pre.active = active) =>
              last'.res.id = last.res.id

C9_ActiveRegisteredOnce == [][C9Step]_vars

\* the call found the active document under a handle minted earlier, while
\* a second document was open
C9_Witness ==
    /\ last.op = "get_selected_shapes" /\ last.h = -1 /\ last.res.kind = "ok"
    /\ last.res.id \in DOMAIN last.pre.presentations
    /\ presentations = last.pre.presentations
    /\ Cardinality(OpenDocs(docs)) = 2

\* C10: open_presentation of a path that does not exist returns 'File not
\* found', does not ask the host to open anything and adds no handle; for
\* an existing path that the host opens it adds exactly one handle, which
\* resolves to the opened document.
C10_OpenPresentation ==
    last.op = "open_presentation" =>
        LET new == (DOMAIN presentations) \ (DOMAIN last.pre.presentations) IN
        /\ last.a = PathId("missing.pptx") =>
              /\ last.res.kind = "error"
              /\ last.res.error = FileNotFound
              /\ "Presentations.Open" \notin last.host
              /\ presentations = last.pre.presentations
              /\ docs = last.pre.docs
        /\ (last.a = PathId("deck.pptx") /\ "Presentations.Open" \in last.host
               /\ last.fault # "open") =>
              /\ Cardinality(new) = 1
              /\ \A t \in DOMAIN last.pre.presentations :
                    t \in DOMAIN presentations
                       /\ presentations[t] = last.pre.presentations[t]
              /\ \A t \in new :
                    /\ docs[presentations[t]].state = "open"
                    /\ docs[presentations[t]].path = "deck.pptx"
                    /\ last.res.kind = "ok" => last.res.id = t

\* a missing path was turned away while a document was open and registered
C10_Witness ==
    /\ last.op = "open_presentation" /\ last.a = PathId("missing.pptx")
    /\ last.res.error = FileNotFound
    /\ presentations # << >>


(* ================= identifiers of slides and shapes ==================== *)
TextTools == {"update_text", "set_text_font_size", "set_text_font_name"}
IdTools == TextTools \cup {"add_text_box"}

\* the positions of a deck other than shape j of slide i hold what they held
OnlyShapeChanged(before, after, i, j) ==
    /\ Len(after) = Len(before)
    /\ \A k \in 1..Len(before) :
          /\ Len(after[k]) = Len(before[k])
          /\ \A m \in 1..Len(before[k]) :
                (k # i \/ m # j) => after[k][m] = before[k][m]

\* slide i has one more shape, the last one, and nothing else changed
OnlyShapeAdded(before, after, i) ==
    /\ Len(after) = Len(before)
    /\ \A k \in 1..Len(before) :
          /\ Len(after[k]) = Len(before[k]) + (IF k = i THEN 1 ELSE 0)
          /\ \A m \in 1..Len(before[k]) : after[k][m] = before[k][m]

\* C11: for update_text, add_text_box, set_text_font_size and
\* set_text_font_name, an identifier given as the integer i, as the string
\* of i, or as that string wrapped in double or in single quotes addresses
\* position i: with slide identifier a spelling of i and shape identifier a
\* spelling of j, and the host answering, the call fails with the range
\* error exactly when i or j is out of range, and otherwise acts on shape j
\* of slide i and on nothing else, whichever spelling was used.
C11_QuotedIdentifiers ==
    \A i \in 0..MaxShapes, j \in 0..MaxShapes :
        ( /\ last.op \in IdTools
          /\ last.h \in DOMAIN last.pre.presentations
          /\ last.fault = "none"
          /\ last.a \in Forms(i)
          /\ last.op \in TextTools => last.b \in Forms(j) )
        => IF i \notin 1..Len(PreDeck) THEN
               last.res = Error(InvalidSlide) /\ PostDeck = PreDeck
           ELSE IF last.op = "add_text_box" THEN
               /\ last.res = [Result EXCEPT !.index = Len(PreDeck[i]) + 1]
               /\ OnlyShapeAdded(PreDeck, PostDeck, i)
               /\ PostDeck[i][Len(PostDeck[i])].kind = "textbox"
           ELSE IF j \notin 1..Len(PreDeck[i]) THEN
               last.res = Error(InvalidShape) /\ PostDeck = PreDeck
           ELSE
               \/ /\ last.res = [Result EXCEPT !.index = j]
                  /\ OnlyShapeChanged(PreDeck, PostDeck, i, j)
               \/ /\ last.res = Error(NotEditable)
                  /\ PreDeck[i][j].kind = "picture"
                  /\ PostDeck = PreDeck

\* update_text through identifiers in double and in single quotes wrote the
\* title of slide 1
C11_Witness ==
    /\ last.op = "update_text"
    /\ last.a = StrId(<<DQ, "1", DQ>>)
    /\ last.b = StrId(<<SQ, "1", SQ>>)
    /\ last.res.kind = "ok"
    /\ PreDeck[1][1].text = "A"
    /\ PostDeck[1][1].text = "X"


\* what is left of a string between its first and its last character that
\* is no quote and no backtick
Unquoted(cs) ==
    LET keep == {k \in 1..Len(cs) : cs[k] \notin QuoteChars} IN
    IF keep = {} THEN << >>
    ELSE SubSeq(cs, CHOOSE k \in keep : \A m \in keep : k <= m,
                    CHOOSE k \in keep : \A m \in keep : k >= m)

\* a base-10 integer as int() reads one: digits, possibly after one sign,
\* possibly with blanks before and after
IsBase10(cs) ==
    \E lo \in 1..Len(cs), hi \in 1..Len(cs) :
        /\ lo <= hi
        /\ \A k \in 1..Len(cs) : (k < lo \/ k > hi) => cs[k] \in Blanks
        /\ \/ \A k \in lo..hi : IsDigit(cs[k])
           \/ /\ lo < hi
              /\ cs[lo] \in {"-", "+"}
              /\ \A k \in (lo + 1)..hi : IsDigit(cs[k])

NotAnInteger(id) == id.str /\ ~IsBase10(Unquoted(id.chars))

\* C12: a string identifier is stripped of its outer quote and backtick
\* characters and what remains must be a base-10 integer; a call of
\* update_text, add_text_box, set_text_font_size or set_text_font_name on a
\* registered handle with an identifier that is not one after stripping
\* returns the invalid-format error without asking the host anything, and
\* no document is modified.
C12_InvalidFormat ==
    ( /\ last.op \in IdTools
      /\ last.h \in DOMAIN last.pre.presentations
      /\ \/ NotAnInteger(last.a)
         \/ last.op \in TextTools /\ NotAnInteger(last.b) )
    => /\ last.res = Error(IF last.op = "add_text_box" THEN InvalidSlideFormat
                           ELSE InvalidFormat)
       /\ last.host = {}
       /\ docs = last.pre.docs

\* set_text_font_size was refused for a slide identifier whose quotes
\* enclose a letter
C12_Witness ==
    /\ last.op = "set_text_font_size"
    /\ last.h \in DOMAIN last.pre.presentations
    /\ last.a = StrId(<<DQ, "x", DQ>>)
    /\ last.b = IntId(1)
    /\ last.res = Error(InvalidFormat)
    /\ docs = last.pre.docs


(* ========================== faults of the host ========================= *)
\* C13: every tool returns a result, a success or an error, and never
\* raises, whichever call into the host faults: the reads of the slide
\* count and the shape count in update_text, set_text_font_size and
\* set_text_font_name and the enumeration in get_presentations included.
\* TLC refutes this: those reads stand outside every try block.
C13_NeverRaises == last.res.kind # "raised"


(* ======================= titles and classification ===================== *)
\* the positions of the title placeholders of a slide whose text range can
\* be read
TitlePlaceholders(shapes) ==
    {i \in 1..Len(shapes) :
        /\ shapes[i].type = msoPlaceholder
        /\ shapes[i].ph = ppPlaceholderTitle
        /\ HasReadableRange(shapes[i].tf) = "yes"}

\* the positions whose shape the host lets the tool read
Live(shapes) == {i \in 1..Len(shapes) : shapes[i].fault = {}}

\* C14: the title get_slides reports for a slide that has a title
\* placeholder with a readable text range is that placeholder's text, the
\* empty string included, whatever text boxes and other shapes with text
\* stand before or after it, as long as the host lets every shape be read.
C14_TitlePlaceholderWins ==
    (LastRegistered("get_slides") /\ last.res.kind = "ok")
    => \A s \in 1..Len(PreDeck) :
          LET shapes == ShapesOf(PreDeck[s])
              titles == TitlePlaceholders(shapes)
          IN (titles # {} /\ Live(shapes) = 1..Len(shapes)) =>
               last.res.shapes[s].title =
                   shapes[CHOOSE i \in titles : \A m \in titles : i <= m].tf.text

\* get_slides reported the empty title of a slide whose empty title
\* placeholder stands behind a text box with text
C14_Witness ==
    /\ LastRegistered("get_slides")
    /\ last.res.kind = "ok"
    /\ Len(PreDeck[1]) = 2
    /\ PreDeck[1][1] = Cell("textbox", "A")
    /\ PreDeck[1][2] = Cell("title", "")
    /\ last.res.shapes[1].title = ""

\* C15: has_text of a shape listed by list_all_shapes_in_slide is true
\* exactly when the shape is of the text-box type (17) or the extraction
\* chain finds a non-empty text for it.
\* TLC refutes this with a shape of the host: its HasText is an int, which
\* is_text_box does not take for a bool.
C15_TextCapability ==
    (LastRegistered("list_all_shapes_in_slide") /\ last.res.kind = "ok")
    => \A i \in 1..Len(last.res.shapes) :
          LET sh == ShapeOf(PreDeck[last.a][i]) IN
          last.res.shapes[i].has_text
              <=> (sh.type = msoTextBox \/ extract_shape_text(sh) \notin {"", Raise})


(* ================================ export =============================== *)
\* a / b rounded to the nearest integer, for positive a and b
Rounded(a, b) == (2 * a + b) \div (2 * b)

LastExported ==
    /\ LastRegistered("export_slide_as_image")
    /\ last.res.kind = "ok"

\* C16: for a page of width W and height H, export_slide_as_image renders
\* (1920, round(1920 * H / W)) when no dimension is asked for,
\* (w, round(w * H / W)) when only the width w is, (round(h * W / H), h)
\* when only the height h is, and the two dimensions as given when both
\* are.
\* TLC refutes this: the code truncates where the claim rounds.
C16_ExportSize ==
    LastExported
    => LET W == last.pre.docs[LastDoc].page[1]
           H == last.pre.docs[LastDoc].page[2]
           w == last.b.width
           h == last.b.height
       IN
       <<last.res.width, last.res.height>> =
           IF ~w.given /\ ~h.given THEN <<1920, Rounded(1920 * H, W)>>
           ELSE IF w.given /\ ~h.given THEN <<w.val, Rounded(w.val * H, W)>>
           ELSE IF ~w.given /\ h.given THEN <<Rounded(h.val * W, H), h.val>>
           ELSE <<w.val, h.val>>

\* C17: the path a successful export_slide_as_image returns differs from
\* the path every earlier call returned, also when the same slide is
\* exported twice in the same format within one second.
\* TLC refutes this: the time stamp of the file name counts whole seconds.
C17_UniquePaths ==
    \A m \in 1..Len(exported), n \in 1..Len(exported) :
        m # n => exported[m] # exported[n]


(* ================================ shapes =============================== *)
\* C18: copy_shape with valid positions succeeds; the target slide then
\* has one more shape, the copy is its last shape and new_shape_id is its
\* new shape count; the shapes the target had keep their positions and the
\* source shape stays where it was; left and top are applied each on its
\* own, the coordinate not given staying as pasted.
C18_CopyShape ==
    ( /\ LastRegistered("copy_shape")
      /\ last.fault = "none"
      /\ last.a \in 1..Len(PreDeck)
      /\ last.b.target \in 1..Len(PreDeck)
      /\ last.b.shape \in 1..Len(PreDeck[last.a]) )
    => LET s      == last.a
           t      == last.b.target
           source == PreDeck[s][last.b.shape]
           n      == Len(PreDeck[t])
           copy   == PostDeck[t][n + 1]
       IN
       /\ last.res.kind = "ok"
       /\ OnlyShapeAdded(PreDeck, PostDeck, t)
       /\ last.res.index = n + 1
       /\ PostDeck[s][last.b.shape] = source
       /\ copy.kind = source.kind /\ copy.text = source.text
       /\ copy.geom[1] = IF last.b.left.given THEN last.b.left.val
                         ELSE source.geom[1]
       /\ copy.geom[2] = IF last.b.top.given THEN last.b.top.val
                         ELSE source.geom[2]
       /\ copy.geom[3] = source.geom[3] /\ copy.geom[4] = source.geom[4]

\* the title of slide 1 was copied onto slide 2 with only top given
C18_Witness ==
    /\ LastRegistered("copy_shape")
    /\ last.res.kind = "ok"
    /\ last.a = 1 /\ last.b.shape = 1 /\ last.b.target = 2
    /\ ~last.b.left.given /\ last.b.top.given
    /\ PreDeck = << SlideA, SlideB >>
    /\ PostDeck[1] = SlideA
    /\ Len(PostDeck[2]) = 2
    /\ PostDeck[2][1] = SlideB[1]
    /\ PostDeck[2][2].kind = "title"
    /\ PostDeck[2][2].geom = <<0, 5, 1, 1>>

(* ==================== validation before the document =================== *)
\* C19: copy_slide with a valid slide_id and an insert_after outside 0..n,
\* n the number of slides at the call, returns the out-of-range error and
\* leaves the deck as it was: n slides and no duplicate.
\* TLC refutes this: insert_after is looked at after Duplicate().
C19_InsertAfterCheckedFirst ==
    ( /\ LastRegistered("copy_slide")
      /\ last.fault = "none"
      /\ last.a \in 1..Len(PreDeck)
      /\ last.b # -1
      /\ last.b \notin 0..Len(PreDeck) )
    => /\ last.res = Error(InvalidInsert)
       /\ PostDeck = PreDeck


\* C20: positions are validated against the counts at the time of the
\* call: whatever add_slide, delete_slide and copy_shape did before, a
\* call whose host answers is turned away for its slide position p exactly
\* when p is outside 1..the current number of slides, and for its shape
\* position exactly when that is outside 1..the current number of shapes
\* of the slide.
C20_CurrentCounts ==
    (last.h \in DOMAIN last.pre.presentations /\ last.fault = "none")
    => /\ last.op = "delete_slide" =>
             (last.res = Error(InvalidSlide) <=> last.a \notin 1..Len(PreDeck))
       /\ last.op = "set_shape_position" =>
             IF last.a \notin 1..Len(PreDeck)
             THEN last.res = Error(InvalidSlide)
             ELSE /\ last.res # Error(InvalidSlide)
                  /\ last.res = Error(InvalidShape)
                        <=> last.b \notin 1..Len(PreDeck[last.a])
       /\ last.op = "copy_shape" =>
             IF last.a \notin 1..Len(PreDeck)
             THEN last.res = Error(InvalidSource)
             ELSE IF last.b.target \notin 1..Len(PreDeck)
             THEN last.res = Error(InvalidTarget)
             ELSE /\ last.res \notin {Error(InvalidSource), Error(InvalidTarget)}
                  /\ last.res = Error(InvalidShape)
                        <=> last.b.shape \notin 1..Len(PreDeck[last.a])

\* set_shape_position took shape 2 of the second slide, which had one shape
\* when the deck was opened, on a deck that add_slide made three slides long
C20_Witness ==
    /\ LastRegistered("set_shape_position")
    /\ last.res.kind = "ok"
    /\ last.a = 2 /\ last.b = 2
    /\ Len(PreDeck) = 3
    /\ PreDeck[2][1] = SlideB[1]
    /\ Len(PreDeck[2]) = 2


(* ====================== faults in the middle of an edit ================ *)
\* C21: move_slide rolls nothing back.  When the paste succeeded and the
\* delete of the original faults, the result is an error and the deck has
\* one slide more: the pasted copy and the original.  When the copy or the
\* paste faults, the result is an error and the deck is as before.
\* get_slides reports the deck as it stands.
C21_NoRollback ==
    /\ (LastRegistered("move_slide") /\ last.fault = "delete")
       => LET s == last.a
              p == last.b
              at == IF p > s THEN p + 1 ELSE p
              orig == IF p > s THEN s ELSE s + 1
          IN
          /\ last.res.kind = "error"
          /\ Len(PostDeck) = Len(PreDeck) + 1
          /\ PostDeck[at] = PreDeck[s]
          /\ PostDeck[orig] = PreDeck[s]
          /\ RemoveAt(PostDeck, at) = PreDeck
    /\ (LastRegistered("move_slide") /\ last.fault \in {"copy", "paste"})
       => last.res.kind = "error" /\ PostDeck = PreDeck
    /\ (LastRegistered("get_slides") /\ last.res.kind = "ok")
       => /\ PostDeck = PreDeck
          /\ last.res.count = Len(PostDeck)
          /\ \A k \in 1..Len(PostDeck) :
                last.res.shapes[k].shape_count = Len(PostDeck[k])

\* the delete faulted when slide 1 of two was moved to position 2
C21_Witness ==
    /\ LastRegistered("move_slide")
    /\ last.fault = "delete"
    /\ last.a = 1 /\ last.b = 2
    /\ PreDeck = << SlideA, SlideB >>
    /\ PostDeck = << SlideA, SlideB, SlideA >>


(* ========================= the title of a slide ======================== *)
\* The title the policy gives for the shapes at the positions live; with
\* literal, a text counts as text when it is not the empty string, else
\* when it is not blank.
PolicyTitle(shapes, live, literal) ==
    LET IsTitle(i) == shapes[i].type = msoPlaceholder
                      /\ shapes[i].ph = ppPlaceholderTitle
        Readable(i) == HasReadableRange(shapes[i].tf) = "yes"
        HasText(i) == /\ Readable(i)
                      /\ IF literal THEN shapes[i].tf.text # ""
                         ELSE ~IsBlankText(shapes[i].tf.text)
        titles == {i \in live : IsTitle(i) /\ Readable(i)}
        boxes  == {i \in live : shapes[i].type = msoTextBox /\ HasText(i)}
        others == {i \in live : ~IsTitle(i) /\ HasText(i)}
        First(S) == CHOOSE i \in S : \A m \in S : i <= m
    IN
    IF titles # {} THEN shapes[First(titles)].tf.text
    ELSE IF boxes # {} THEN shapes[First(boxes)].tf.text
    ELSE IF others # {} THEN shapes[First(others)].tf.text
    ELSE Untitled

C23_FaultSkipsShape ==
    (LastRegistered("get_slides") /\ last.res.kind = "ok")
    => \A s \in 1..Len(PreDeck) :
          LET shapes == ShapesOf(PreDeck[s]) IN
          last.res.shapes[s].title = PolicyTitle(shapes, Live(shapes), FALSE)


(* ============================ shape listings =========================== *)
LastListed ==
    /\ LastRegistered("list_all_shapes_in_slide")
    /\ last.res.kind = "ok"

\* the text a frame reports when it can be read and holds one, else ""
HeldText(fr) ==
    IF fr.state = "ok" /\ fr.range = "ok" /\ fr.textState = "str" THEN fr.text
    ELSE ""

\* TextFrame2 when it reports a non-empty text, otherwise the legacy frame
ChainText(sh) ==
    IF HeldText(sh.tf2) # "" THEN HeldText(sh.tf2) ELSE HeldText(sh.tf)

\* C24: the text reported for a shape is that of TextFrame2 when it
\* reports a non-empty text, otherwise that of the legacy TextFrame; a
\* fault at the TextFrame2 step falls through to the legacy step.
\* TLC refutes this: hasattr(shape, "TextFrame2") lets the fault of the
\* host through, and the outer except returns the empty text.
C24_ExtractionChain ==
    LastListed
    => \A i \in 1..Len(last.res.shapes) :
          LET sh == ShapeOf(PreDeck[last.a][i]) IN
          (last.res.shapes[i].text # None /\ sh.name # "TextFrame shape")
          => last.res.shapes[i].text = ChainText(sh)

\* C25: list_all_shapes_in_slide of an existing slide succeeds although
\* the host faults while one shape is read, and reports every other shape
\* under its position.
\* TLC refutes this: the loop over the shapes has no try of its own.
C25_PartialListing ==
    ( /\ LastRegistered("list_all_shapes_in_slide")
      /\ last.fault = "none"
      /\ last.a \in 1..Len(PreDeck) )
    => /\ last.res.kind = "ok"
       /\ \A i \in Live(ShapesOf(PreDeck[last.a])) :
             \E m \in 1..Len(last.res.shapes) : last.res.shapes[m].id = i

\* C27: what is reported of a shape does not depend on its name: has_text
\* and the text are those of the same shape under another name, and the
\* text is one that a text frame of the shape holds, or empty.
\* TLC refutes this: extract_shape_text answers the name "TextFrame shape"
\* with a text of its own.
C27_NameIndependent ==
    LastListed
    => \A i \in 1..Len(last.res.shapes) :
          LET sh    == ShapeOf(PreDeck[last.a][i])
              other == [sh EXCEPT !.name = "Shape 9"]
              entry == last.res.shapes[i]
          IN
          /\ entry.has_text = is_text_box(other)
          /\ entry.text # None
             => /\ entry.text = extract_shape_text(other)
                /\ entry.text \in {"", HeldText(sh.tf), HeldText(sh.tf2)}


(* ========================= close_presentation ========================== *)
\* C26: close_presentation on a registered handle h changes the registry
\* only when it succeeds: when Save or Close raises it reports a failure
\* and the registry is what it was, h included; when it succeeds the
\* registry is what it was without h; and with save = false Save is never
\* invoked.
C26_CloseRegistry ==
    LastRegistered("close_presentation")
    => /\ last.fault # "none" => last.res.kind = "error"
       /\ last.res.kind = "error"
          => /\ presentations = last.pre.presentations
             /\ last.h \in DOMAIN presentations
       /\ last.res.kind = "ok"
          => /\ DOMAIN presentations = (DOMAIN last.pre.presentations) \ {last.h}
             /\ \A t \in DOMAIN presentations :
                   presentations[t] = last.pre.presentations[t]
       /\ last.a = 0 => "Save" \notin last.host

\* a presentation closed without saving while another stays registered
C26_Witness ==
    /\ LastRegistered("close_presentation")
    /\ last.res.kind = "ok"
    /\ last.a = 0
    /\ "Close" \in last.host
    /\ DOMAIN presentations # {}
    /\ last.h \notin DOMAIN presentations


(* ========================= get_selected_shapes ========================= *)
\* C29: what get_selected_shapes reports for a registered handle h belongs
\* to the document of h: when the active window shows another document, no
\* slide and no shape of that document is reported under h; and every
\* shape_id is "unknown" (0) or a position on the reported slide of h's
\* document.
\* TLC refutes this: the selection is read from ActiveWindow whatever
\* document h refers to.
C29_SelectionOfHandle ==
    ( /\ LastRegistered("get_selected_shapes")
      /\ last.res.kind = "ok" )
    => /\ last.pre.active # LastDoc
          => /\ last.res.index = 0
             /\ last.res.shapes = << >>
       /\ \A m \in 1..Len(last.res.shapes) :
             \/ last.res.shapes[m].id = 0
             \/ /\ last.res.index \in 1..Len(PreDeck)
                /\ last.res.shapes[m].id \in 1..Len(PreDeck[last.res.index])


(* ======================== get_presentation_info ======================== *)
\* C30: get_presentation_info reports is_saved = true exactly when the
\* Saved flag of the document is true: true after a save_presentation with
\* no change since, false after a change such as add_slide that was not
\* saved.
\* TLC refutes this: the tool reports "not pres.Saved".
C30_IsSaved ==
    ( /\ LastRegistered("get_presentation_info")
      /\ last.res.kind = "ok" )
    => last.res.is_saved = last.pre.docs[LastDoc].saved


(* =========================== set_slide_title =========================== *)
LastTitleSet ==
    /\ LastRegistered("set_slide_title")
    /\ last.res.kind = "ok"
    /\ ~IsBlankText(last.b)

C28Step ==
    LastTitleSet
    => /\ ( /\ last'.op = "get_slides"
            /\ last'.h = last.h
            /\ last'.res.kind = "ok" )
          => last'.res.shapes[last.res.index].title = last.b
       /\ ( /\ last'.op = "set_slide_title"
            /\ last'.res.kind = "ok"
            /\ last'.h = last.h /\ last'.a = last.a /\ last'.b = last.b )
          => Len(docs'[LastDoc].slides[last.res.index])
                = Len(docs[LastDoc].slides[last.res.index])

\* C28: after a successful set_slide_title(h, s, t) with a non-blank t,
\* get_slides(h) reports the title t for slide s, whatever shapes the
\* slide held; and the same set_slide_title call once more leaves the
\* number of shapes of the slide as it is.
\* TLC refutes this: without a title placeholder the title goes into a text
\* box added behind the shapes of the slide, every call adds one more, and
\* get_slide_title reads the first text box that holds text.
C28_TitleRoundTrip == [][C28Step]_vars

====
